---- MODULE Spec2Model ----
(***************************************************************************)
(* A model of the Kabul card game engines of this repository:             *)
(*   - KabulGame        (src/src/KabulGame.js), the in-memory engine       *)
(*   - FirebaseService  (src/unnamed/part_002), the engine over a shared   *)
(*                      document store, whose handlers are sequences of    *)
(*                      awaited reads and writes that interleave           *)
(* Every run drives one engine (variable engine); the state of the other   *)
(* engine stays as it is at the start.                                     *)
(***************************************************************************)
EXTENDS Integers, Sequences, FiniteSets, TLC

VARIABLES
    engine,     \* "KabulGame" or "FirebaseService": the engine this run drives
    game,       \* KabulGame: this.state
    timers,     \* KabulGame: outstanding setTimeout callbacks, oldest first
    last,       \* the last call that changed the engine's state, and its outcome
    opCount,    \* KabulGame: calls that changed the state; FirebaseService: requests submitted
    slapCount,  \* number of slaps among them
    starts,     \* KabulGame: number of startGame calls that returned
    db,         \* FirebaseService: the document rooms/{roomId}
    procs,      \* FirebaseService: the requests in flight, and the slaps that returned
    fbTimers    \* FirebaseService: outstanding setTimeout callbacks

vars == <<engine, game, timers, last, opCount, slapCount, starts, db, procs, fbTimers>>

(***************************************************************************)
(* Bounds of the model                                                     *)
(***************************************************************************)
\* players seated in a room (the code needs at least 2)
MaxPlayers == 3
\* gameplay calls that change the state of a KabulGame in one run
MaxOps == 3
\* slaps among them
MaxSlaps == 1
\* largest hand index a caller submits (-1 is submitted too)
MaxIndex == 1
\* startGame calls on one KabulGame (the code lets a started game start again)
MaxStarts == 2
\* requests submitted to a FirebaseService room in one run
MaxRequests == 2
\* cards of the longest deck the shuffles are applied to on their own
MaxDeck == 4

(***************************************************************************)
(* Null values                                                             *)
(***************************************************************************)
NoPlayer == 0
NoPos == -1
\* no index: null is no position of a hand, and is not the -1 a caller can pass
NoIndex == -2

(***************************************************************************)
(* Cards                                                                   *)
(***************************************************************************)
RANKS == <<"A", "2", "3", "4", "5", "6", "7", "8", "9", "10", "J", "Q", "K">>

\* CARD_VALUES
CARD_VALUES(rank) ==
    CASE rank = "Joker" -> 0
      [] rank = "A" -> 1
      [] rank = "2" -> 2
      [] rank = "3" -> 3
      [] rank = "4" -> 4
      [] rank = "5" -> 5
      [] rank = "6" -> 6
      [] rank = "7" -> 7
      [] rank = "8" -> 8
      [] rank = "9" -> 9
      [] rank = "10" -> 10
      [] rank = "J" -> 11
      [] rank = "Q" -> 12
      [] rank = "K" -> 13

\* CARD_ABILITIES[rank] || 'NONE'
CARD_ABILITIES(rank) ==
    CASE rank \in {"7", "8"} -> "PEEK_SELF"
      [] rank \in {"9", "10"} -> "PEEK_ENEMY"
      [] rank = "J" -> "BLIND_SWAP"
      [] rank \in {"Q", "K"} -> "SEE_AND_SWAP"
      [] OTHER -> "NONE"

\* _createCard: a card is its rank and suit; value, actionType, display and id
\* are functions of the two. position is set when the card enters a hand.
Value(card) ==
    IF card.rank = "Joker" THEN 0
    ELSE IF card.rank = "K"
         THEN (IF card.suit \in {"H", "D"} THEN -1 ELSE 13)
         ELSE CARD_VALUES(card.rank)

ActionType(card) ==
    IF card.rank = "Joker" THEN "NONE" ELSE CARD_ABILITIES(card.rank)

_createCard(rank, suit) == [rank |-> rank, suit |-> suit, position |-> NoPos]

NoCard == [rank |-> "null", suit |-> "null", position |-> NoPos]

\* { ...card, position: i }
WithPosition(card, i) == [card EXCEPT !.position = i]

\* what a masked view shows of a card: display and value
Display(card) == <<card.rank, card.suit>>

\* _initDeck: 4 suits x 13 ranks, then 2 Jokers
_initDeck ==
    [i \in 1..52 |-> _createCard(RANKS[((i - 1) % 13) + 1],
                                 <<"H", "D", "S", "C">>[((i - 1) \div 13) + 1])]
    \o <<_createCard("Joker", "null"), _createCard("Joker", "null")>>

\* zero-based access to an array
At(arr, i) == arr[i + 1]

\* the assignment arr[i] = arr[j] alone: arr[j] keeps its card
Swap_Overwrite(arr, i, j) == [arr EXCEPT ![i + 1] = arr[j + 1]]

\* [arr[i], arr[j]] = [arr[j], arr[i]]
Swap(arr, i, j) == [arr EXCEPT ![i + 1] = arr[j + 1], ![j + 1] = arr[i + 1]]

\* _shuffleDeck: for i from length-1 down to 1, swap arr[i] with arr[j],
\* j = rnd[i] in 0..i being the value of Math.floor(Math.random() * (i + 1))
RECURSIVE ShuffleFrom(_, _, _)
ShuffleFrom(arr, i, rnd) ==
    IF i <= 0 THEN arr ELSE ShuffleFrom(Swap(arr, i, rnd[i]), i - 1, rnd)

_shuffleDeck(arr, rnd) == ShuffleFrom(arr, Len(arr) - 1, rnd)

\* GameLogic.shuffleDeck: the same loop over state.deck
shuffleDeck(arr, rnd) == ShuffleFrom(arr, Len(arr) - 1, rnd)

(***************************************************************************)
(* KabulGame: state                                                        *)
(***************************************************************************)
NoDrawnCard == [playerId |-> NoPlayer, card |-> NoCard]

\* pendingAction. shared tells that card is the very object that sits in the
\* hand of targetId: a peek stores the hand's card object, not a copy, and
\* card.position follows that object for as long as it stays in the hand.
NoPendingAction ==
    [type |-> "null", playerId |-> NoPlayer, targetId |-> NoPlayer,
     handIndex |-> NoIndex, card |-> NoCard, expired |-> FALSE, shared |-> FALSE]

\* constructor
NewGame ==
    [phase |-> "WAITING",
     players |-> <<>>,
     turnOrder |-> <<>>,
     currentTurnIndex |-> 0,
     deck |-> <<>>,
     discardPile |-> <<>>,
     topDiscard |-> NoCard,
     drawnCard |-> NoDrawnCard,
     pendingAction |-> NoPendingAction,
     kabulCaller |-> NoPlayer,
     finalTurnsRemaining |-> 0,
     winner |-> NoPlayer]

\* the outcome of a call: the state it leaves, whether it returned or threw,
\* the message thrown, and the card (if any) the return value shows
\* (ok), the success flag of the value returned, the message thrown, and the
\* card (if any) the returned value shows
Return(s) ==
    [ok |-> TRUE, success |-> TRUE, err |-> "", state |-> s, card |-> NoCard]
ReturnCard(s, card) ==
    [ok |-> TRUE, success |-> TRUE, err |-> "", state |-> s, card |-> card]
ReturnFailure(s) ==
    [ok |-> TRUE, success |-> FALSE, err |-> "", state |-> s, card |-> NoCard]
Throw(s, msg) ==
    [ok |-> FALSE, success |-> FALSE, err |-> msg, state |-> s, card |-> NoCard]

PlayerIds(s) == {s.turnOrder[i] : i \in 1..Len(s.turnOrder)}

\* getCurrentPlayerId (undefined when nobody is seated)
getCurrentPlayerId(s) ==
    IF s.currentTurnIndex < Len(s.turnOrder)
    THEN At(s.turnOrder, s.currentTurnIndex)
    ELSE NoPlayer

Hand(s, p) == s.players[p].hand

SetHand(s, p, hand) == [s EXCEPT !.players[p].hand = hand]

(***************************************************************************)
(* KabulGame: setup                                                        *)
(***************************************************************************)
addPlayer(s, playerId) ==
    IF s.phase # "WAITING" THEN Throw(s, "Game already started")
    ELSE Return([s EXCEPT
            !.players = [q \in (DOMAIN s.players) \cup {playerId} |->
                            IF q = playerId
                            THEN [hand |-> <<>>, hasCalledKabul |-> FALSE,
                                  finalScore |-> <<>>]
                            ELSE s.players[q]],
            !.turnOrder = Append(s.turnOrder, playerId)])

\* _dealCards: each player of turnOrder in turn takes 4 cards off the deck
RECURSIVE DealFrom(_, _)
DealFrom(s, k) ==
    IF k > Len(s.turnOrder) THEN s
    ELSE LET p == s.turnOrder[k]
             hand == [i \in 1..4 |-> WithPosition(s.deck[i], i - 1)]
         IN DealFrom([s EXCEPT !.players[p].hand = hand,
                               !.deck = SubSeq(s.deck, 5, Len(s.deck))], k + 1)

_dealCards(s) == DealFrom(s, 1)

\* _initDiscard that copies the top of the deck and leaves it on the deck
InitDiscard_KeepsDeck(s) ==
    [s EXCEPT !.discardPile = Append(s.discardPile, Head(s.deck)),
              !.topDiscard = Head(s.deck)]

\* _initDiscard
_initDiscard(s) ==
    [s EXCEPT !.deck = Tail(s.deck),
              !.discardPile = Append(s.discardPile, Head(s.deck)),
              !.topDiscard = Head(s.deck)]

\* Outcomes of Math.random() in _shuffleDeck: rnd[i] is the index j drawn at
\* step i. NoSwaps leaves the deck in the order _initDeck built it; CutDeck
\* brings an ace of diamonds under the dealt hands and a 7 on top of the deck.
\* SlapCut gives the first player an 8 as first card and puts a 7 on top of
\* the deck and an 8 two cards below it. Randoms are the outcomes a startGame
\* of a run draws from; SlapCut is the outcome behind StalePeekGame. TieCut
\* deals 9 10 3 4 and 5 6 7 8 of hearts: two hands of 26 points.
NoSwaps == [i \in 1..53 |-> i]
CutDeck == [i \in 1..53 |-> CASE i = 13 -> 8 [] i = 9 -> 6 [] OTHER -> i]
SlapCut == [i \in 1..53 |-> CASE i = 20 -> 0 [] i = 11 -> 7 [] i = 9 -> 6 [] OTHER -> i]
TieCut == [i \in 1..53 |-> CASE i = 9 -> 1 [] i = 8 -> 0 [] OTHER -> i]
Randoms == {NoSwaps, CutDeck}

\* the deck _initDeck and _shuffleDeck leave, for each outcome of the shuffle
ShuffledDeck == [rnd \in Randoms \cup {SlapCut, TieCut} |-> _shuffleDeck(_initDeck, rnd)]

\* startGame, rnd being the random choices of the shuffle
startGame(s, rnd) ==
    IF Len(s.turnOrder) < 2 THEN Throw(s, "Need at least 2 players")
    ELSE Return([_initDiscard(_dealCards([s EXCEPT !.deck = ShuffledDeck[rnd]]))
                    EXCEPT !.phase = "MEMORIZE", !.pendingAction.shared = FALSE])

endMemorizePhase(s) ==
    IF s.phase = "MEMORIZE" THEN [s EXCEPT !.phase = "PLAYING"] ELSE s

(***************************************************************************)
(* KabulGame: helpers                                                      *)
(***************************************************************************)
\* _addToDiscard that sets topDiscard and forgets to push the card on the pile
AddToDiscard_TopOnly(s, card) == [s EXCEPT !.topDiscard = card]

\* _addToDiscard
_addToDiscard(s, card) ==
    [s EXCEPT !.discardPile = Append(s.discardPile, card), !.topDiscard = card]

\* _clearDrawnCard
_clearDrawnCard(s) == [s EXCEPT !.drawnCard = NoDrawnCard]

\* _validateTurn: the message it throws, "" when it passes
_validateTurn(s, playerId) ==
    IF s.phase # "PLAYING" THEN "Game is not in playing phase"
    ELSE IF getCurrentPlayerId(s) # playerId THEN "Not your turn"
    ELSE ""

\* _validateNoDrawnCard
_validateNoDrawnCard(s) ==
    IF s.drawnCard # NoDrawnCard THEN "Already drew a card this turn" ELSE ""

\* _validateDrawnCard
_validateDrawnCard(s, playerId) ==
    IF s.drawnCard = NoDrawnCard \/ s.drawnCard.playerId # playerId
    THEN "No card drawn this turn" ELSE ""

\* _validatePendingAction: an expired action is cleared before the throw
_validatePendingAction(s, playerId, type) ==
    IF s.pendingAction = NoPendingAction
       \/ s.pendingAction.playerId # playerId
       \/ s.pendingAction.type # type
    THEN Throw(s, "No pending action")
    ELSE IF s.pendingAction.expired
    THEN Throw([s EXCEPT !.pendingAction = NoPendingAction], "Action expired")
    ELSE Return(s)

\* _computeHandValue
RECURSIVE SumValues(_, _)
SumValues(hand, k) ==
    IF k > Len(hand) THEN 0 ELSE Value(hand[k]) + SumValues(hand, k + 1)

_computeHandValue(hand) == SumValues(hand, 1)

\* the loop of _endGame: the first player of turnOrder with the lowest score
RECURSIVE BestFrom(_, _, _, _)
\* the loop with score <= bestScore: the last player with the lowest score
BestFrom_LastLowest(s, k, bestPlayer, bestScore) ==
    IF k > Len(s.turnOrder) THEN bestPlayer
    ELSE LET p == s.turnOrder[k]
             score == SumValues(Hand(s, p), 1)
         IN IF bestPlayer = NoPlayer \/ score <= bestScore
            THEN BestFrom(s, k + 1, p, score)
            ELSE BestFrom(s, k + 1, bestPlayer, bestScore)

BestFrom(s, k, bestPlayer, bestScore) ==
    IF k > Len(s.turnOrder) THEN bestPlayer
    ELSE LET p == s.turnOrder[k]
             score == _computeHandValue(Hand(s, p))
         IN IF bestPlayer = NoPlayer \/ score < bestScore
            THEN BestFrom(s, k + 1, p, score)
            ELSE BestFrom(s, k + 1, bestPlayer, bestScore)

\* _endGame
_endGame(s) ==
    [s EXCEPT !.phase = "ENDED",
              !.players = [p \in DOMAIN s.players |->
                  [s.players[p] EXCEPT
                      !.finalScore = IF p \in PlayerIds(s)
                                     THEN <<_computeHandValue(s.players[p].hand)>>
                                     ELSE @]],
              !.winner = BestFrom(s, 1, NoPlayer, 0)]

\* _nextTurn
_nextTurn(s) ==
    LET n == Len(s.turnOrder)
        i1 == (s.currentTurnIndex + 1) % n
        i2 == IF At(s.turnOrder, i1) = s.kabulCaller THEN (i1 + 1) % n ELSE i1
        s1 == [s EXCEPT !.currentTurnIndex = i2]
    IN IF s.kabulCaller # NoPlayer
       THEN LET s2 == [s1 EXCEPT !.finalTurnsRemaining = @ - 1]
            IN IF s2.finalTurnsRemaining <= 0 THEN _endGame(s2) ELSE s2
       ELSE s1

\* _resolveAction: the pending action a discarded card opens
_resolveAction(s, card, playerId) ==
    LET open(type) ==
            [s EXCEPT !.pendingAction =
                [NoPendingAction EXCEPT !.type = type, !.playerId = playerId]]
    IN CASE card.rank \in {"7", "8"} -> open("CHOOSING_OWN_CARD_TO_PEEK")
         [] card.rank \in {"9", "10"} -> open("CHOOSING_ENEMY_CARD_TO_PEEK")
         [] card.rank = "J" -> open("SWAPPING_CARDS")
         [] card.rank \in {"Q", "K"} -> open("SEE_AND_SWAPPING_CARDS")
         [] OTHER -> s

\* the tail shared by swapCard and discardDrawn
NextTurnUnlessPending(s) ==
    IF s.pendingAction = NoPendingAction THEN _nextTurn(s) ELSE s

(***************************************************************************)
(* KabulGame: turn actions                                                 *)
(***************************************************************************)
\* drawCard that pops the discard pile and leaves topDiscard as it was
DrawCard_KeepsTop(s, playerId, source) ==
    IF _validateTurn(s, playerId) # "" THEN Throw(s, _validateTurn(s, playerId))
    ELSE IF _validateNoDrawnCard(s) # "" THEN Throw(s, _validateNoDrawnCard(s))
    ELSE IF source = "deck"
    THEN IF Len(s.deck) = 0 THEN Throw(s, "Deck is empty")
         ELSE ReturnCard([s EXCEPT !.deck = Tail(s.deck),
                                   !.drawnCard = [playerId |-> playerId, card |-> Head(s.deck)]],
                         Head(s.deck))
    ELSE IF source = "discard"
    THEN IF Len(s.discardPile) = 0 THEN Throw(s, "Discard pile is empty")
         ELSE LET card == s.discardPile[Len(s.discardPile)]
                  pile == SubSeq(s.discardPile, 1, Len(s.discardPile) - 1)
              IN ReturnCard([s EXCEPT
                                !.discardPile = pile,
                                !.drawnCard = [playerId |-> playerId, card |-> card]],
                            card)
    ELSE Throw(s, "Invalid source")

drawCard(s, playerId, source) ==
    IF _validateTurn(s, playerId) # "" THEN Throw(s, _validateTurn(s, playerId))
    ELSE IF _validateNoDrawnCard(s) # "" THEN Throw(s, _validateNoDrawnCard(s))
    ELSE IF source = "deck"
    THEN IF Len(s.deck) = 0 THEN Throw(s, "Deck is empty")
         ELSE ReturnCard([s EXCEPT !.deck = Tail(s.deck),
                                   !.drawnCard = [playerId |-> playerId, card |-> Head(s.deck)]],
                         Head(s.deck))
    ELSE IF source = "discard"
    THEN IF Len(s.discardPile) = 0 THEN Throw(s, "Discard pile is empty")
         ELSE LET card == s.discardPile[Len(s.discardPile)]
                  pile == SubSeq(s.discardPile, 1, Len(s.discardPile) - 1)
              IN ReturnCard([s EXCEPT
                                !.discardPile = pile,
                                !.topDiscard = IF Len(pile) > 0 THEN pile[Len(pile)] ELSE NoCard,
                                !.drawnCard = [playerId |-> playerId, card |-> card]],
                            card)
    ELSE Throw(s, "Invalid source")

\* What a change of the hand of playerId at handIndex does to a PEEK_RESULT
\* that holds one of the hand's card objects. When the card at handIndex
\* leaves the hand, a PEEK_RESULT holding it keeps the object and the hand
\* goes on without it. When the cards behind handIndex are renumbered in place
\* (player.hand.forEach((c, i) => c.position = i) after a splice), the card of
\* a PEEK_RESULT that is one of them is renumbered with them.
Reseat(s, playerId, handIndex, renumbered) ==
    IF s.pendingAction.shared /\ s.pendingAction.targetId = playerId
    THEN IF s.pendingAction.card.position = handIndex
         THEN [s EXCEPT !.pendingAction.shared = FALSE]
         ELSE IF renumbered /\ s.pendingAction.card.position > handIndex
         THEN [s EXCEPT !.pendingAction.card.position = @ - 1]
         ELSE s
    ELSE s

\* swapCard that puts the drawn card in the hand and on the discard pile as
\* well, the replaced card going nowhere
SwapCard_DiscardsDrawn(s, playerId, handIndex) ==
    IF _validateTurn(s, playerId) # "" THEN Throw(s, _validateTurn(s, playerId))
    ELSE IF _validateDrawnCard(s, playerId) # "" THEN Throw(s, _validateDrawnCard(s, playerId))
    ELSE IF handIndex < 0 \/ handIndex >= Len(Hand(s, playerId))
    THEN Throw(s, "Invalid hand index")
    ELSE LET replaced == At(Hand(s, playerId), handIndex)
             s1 == SetHand(Reseat(s, playerId, handIndex, FALSE), playerId,
                       [Hand(s, playerId) EXCEPT
                           ![handIndex + 1] = WithPosition(s.drawnCard.card, handIndex)])
             s2 == _clearDrawnCard(_addToDiscard(s1, s.drawnCard.card))
         IN ReturnCard(NextTurnUnlessPending(_resolveAction(s2, replaced, playerId)), replaced)

swapCard(s, playerId, handIndex) ==
    IF _validateTurn(s, playerId) # "" THEN Throw(s, _validateTurn(s, playerId))
    ELSE IF _validateDrawnCard(s, playerId) # "" THEN Throw(s, _validateDrawnCard(s, playerId))
    ELSE IF handIndex < 0 \/ handIndex >= Len(Hand(s, playerId))
    THEN Throw(s, "Invalid hand index")
    ELSE LET replaced == At(Hand(s, playerId), handIndex)
             s1 == SetHand(Reseat(s, playerId, handIndex, FALSE), playerId,
                       [Hand(s, playerId) EXCEPT
                           ![handIndex + 1] = WithPosition(s.drawnCard.card, handIndex)])
             s2 == _clearDrawnCard(_addToDiscard(s1, replaced))
         IN ReturnCard(NextTurnUnlessPending(_resolveAction(s2, replaced, playerId)), replaced)

discardDrawn(s, playerId) ==
    IF _validateTurn(s, playerId) # "" THEN Throw(s, _validateTurn(s, playerId))
    ELSE IF _validateDrawnCard(s, playerId) # "" THEN Throw(s, _validateDrawnCard(s, playerId))
    ELSE LET card == s.drawnCard.card
             s2 == _clearDrawnCard(_addToDiscard(s, card))
         IN ReturnCard(NextTurnUnlessPending(_resolveAction(s2, card, playerId)), card)

(***************************************************************************)
(* KabulGame: peeks                                                        *)
(***************************************************************************)
PeekResult(playerId, targetId, handIndex, card) ==
    [type |-> "PEEK_RESULT", playerId |-> playerId, targetId |-> targetId,
     handIndex |-> handIndex, card |-> card, expired |-> FALSE, shared |-> TRUE]

\* peekOwnCard; when it returns, the caller has scheduled _clearPeekAndNextTurn
peekOwnCard(s, playerId, handIndex) ==
    LET v == _validatePendingAction(s, playerId, "CHOOSING_OWN_CARD_TO_PEEK")
    IN IF ~v.ok THEN v
       ELSE IF handIndex < 0 \/ handIndex >= Len(Hand(s, playerId))
       THEN Throw(s, "Invalid hand index")
       ELSE LET card == At(Hand(s, playerId), handIndex)
            IN ReturnCard([s EXCEPT !.pendingAction =
                              PeekResult(playerId, playerId, handIndex, card)], card)

\* peekEnemyCard
peekEnemyCard(s, playerId, targetId, handIndex) ==
    LET v == _validatePendingAction(s, playerId, "CHOOSING_ENEMY_CARD_TO_PEEK")
    IN IF ~v.ok THEN v
       ELSE IF targetId = playerId THEN Throw(s, "Cannot peek your own card with 9/10")
       ELSE IF targetId \notin DOMAIN s.players THEN Throw(s, "Invalid target player")
       ELSE IF handIndex < 0 \/ handIndex >= Len(Hand(s, targetId))
       THEN Throw(s, "Invalid hand index")
       ELSE LET card == At(Hand(s, targetId), handIndex)
            IN ReturnCard([s EXCEPT !.pendingAction =
                              PeekResult(playerId, targetId, handIndex, card)], card)

(***************************************************************************)
(* KabulGame: swaps                                                        *)
(***************************************************************************)
\* the exchange both swaps make, then pendingAction = null and _nextTurn
ExchangeAndNextTurn(s, playerId, ownIndex, targetId, targetIndex) ==
    LET ownCard == At(Hand(s, playerId), ownIndex)
        targetCard == At(Hand(s, targetId), targetIndex)
        s1 == SetHand(s, playerId,
                  [Hand(s, playerId) EXCEPT
                      ![ownIndex + 1] = WithPosition(targetCard, ownIndex)])
        s2 == SetHand(s1, targetId,
                  [Hand(s1, targetId) EXCEPT
                      ![targetIndex + 1] = WithPosition(ownCard, targetIndex)])
    IN _nextTurn([s2 EXCEPT !.pendingAction = NoPendingAction])

\* the checks blindSwap and seeAndSwap make after _validatePendingAction
SwapError(s, playerId, ownIndex, targetId, targetIndex) ==
    IF targetId = playerId THEN "Cannot swap with yourself"
    ELSE IF targetId \notin DOMAIN s.players THEN "Invalid target player"
    ELSE IF ownIndex < 0 \/ ownIndex >= Len(Hand(s, playerId)) THEN "Invalid own index"
    ELSE IF targetIndex < 0 \/ targetIndex >= Len(Hand(s, targetId))
    THEN "Invalid target index"
    ELSE ""

\* blindSwap that gives the target's card to the player and leaves the
\* target's hand as it is
BlindSwap_OneWay(s, playerId, ownIndex, targetId, targetIndex) ==
    LET v == _validatePendingAction(s, playerId, "SWAPPING_CARDS")
    IN IF ~v.ok THEN v
       ELSE IF SwapError(s, playerId, ownIndex, targetId, targetIndex) # ""
       THEN Throw(s, SwapError(s, playerId, ownIndex, targetId, targetIndex))
       ELSE Return(_nextTurn(
                [SetHand(s, playerId,
                     [Hand(s, playerId) EXCEPT
                         ![ownIndex + 1] =
                             WithPosition(At(Hand(s, targetId), targetIndex), ownIndex)])
                 EXCEPT !.pendingAction = NoPendingAction]))

blindSwap(s, playerId, ownIndex, targetId, targetIndex) ==
    LET v == _validatePendingAction(s, playerId, "SWAPPING_CARDS")
    IN IF ~v.ok THEN v
       ELSE IF SwapError(s, playerId, ownIndex, targetId, targetIndex) # ""
       THEN Throw(s, SwapError(s, playerId, ownIndex, targetId, targetIndex))
       ELSE Return(ExchangeAndNextTurn(s, playerId, ownIndex, targetId, targetIndex))

\* seeAndSwap: the result shows the acting player's card (and the target's)
seeAndSwap(s, playerId, ownIndex, targetId, targetIndex) ==
    LET v == _validatePendingAction(s, playerId, "SEE_AND_SWAPPING_CARDS")
    IN IF ~v.ok THEN v
       ELSE IF SwapError(s, playerId, ownIndex, targetId, targetIndex) # ""
       THEN Throw(s, SwapError(s, playerId, ownIndex, targetId, targetIndex))
       ELSE ReturnCard(ExchangeAndNextTurn(s, playerId, ownIndex, targetId, targetIndex),
                       At(Hand(s, targetId), targetIndex))

\* skipAction that does not compare pendingAction.playerId with the caller
SkipAction_AnyPlayer(s, playerId) ==
    IF s.pendingAction # NoPendingAction
    THEN Return(_nextTurn([s EXCEPT !.pendingAction = NoPendingAction]))
    ELSE Return(s)

skipAction(s, playerId) ==
    IF s.pendingAction # NoPendingAction /\ s.pendingAction.playerId = playerId
    THEN Return(_nextTurn([s EXCEPT !.pendingAction = NoPendingAction]))
    ELSE Return(s)

\* the callback that clears the peek and leaves the turn where it is
ClearPeek_KeepsTurn(s, playerId) ==
    IF s.pendingAction.type = "PEEK_RESULT" /\ s.pendingAction.playerId = playerId
    THEN [s EXCEPT !.pendingAction = NoPendingAction]
    ELSE s

\* _clearPeekAndNextTurn, the callback of the peek timers
_clearPeekAndNextTurn(s, playerId) ==
    IF s.pendingAction.type = "PEEK_RESULT" /\ s.pendingAction.playerId = playerId
    THEN _nextTurn([s EXCEPT !.pendingAction = NoPendingAction])
    ELSE s

(***************************************************************************)
(* KabulGame: slap and Kabul                                               *)
(***************************************************************************)
\* hand.splice(handIndex, 1), then position = index for the cards left
RemoveAt(hand, handIndex) ==
    [i \in 1..(Len(hand) - 1) |->
        WithPosition(IF i <= handIndex THEN hand[i] ELSE hand[i + 1], i - 1)]

\* slap whose penalty copies the top of the deck and leaves it on the deck
Slap_PenaltyKeepsDeck(s, playerId, handIndex) ==
    IF s.phase # "PLAYING" THEN Throw(s, "Cannot slap outside of playing phase")
    ELSE IF handIndex < 0 THEN Throw(s, "Invalid hand index")
    ELSE IF playerId \notin DOMAIN s.players THEN Throw(s, "TypeError")
    ELSE IF handIndex >= Len(Hand(s, playerId)) THEN Throw(s, "Invalid hand index")
    ELSE LET card == At(Hand(s, playerId), handIndex)
         IN IF card.rank = s.topDiscard.rank
            THEN Return(_addToDiscard(
                     SetHand(Reseat(s, playerId, handIndex, TRUE),
                             playerId, RemoveAt(Hand(s, playerId), handIndex)), card))
            ELSE IF Len(s.deck) > 0
            THEN ReturnFailure(
                     SetHand(s, playerId,
                         Append(Hand(s, playerId),
                                WithPosition(Head(s.deck), Len(Hand(s, playerId))))))
            ELSE ReturnFailure(s)

slap(s, playerId, handIndex) ==
    IF s.phase # "PLAYING" THEN Throw(s, "Cannot slap outside of playing phase")
    ELSE IF handIndex < 0 THEN Throw(s, "Invalid hand index")
    ELSE IF playerId \notin DOMAIN s.players THEN Throw(s, "TypeError")
    ELSE IF handIndex >= Len(Hand(s, playerId)) THEN Throw(s, "Invalid hand index")
    ELSE LET card == At(Hand(s, playerId), handIndex)
         IN IF card.rank = s.topDiscard.rank
            THEN Return(_addToDiscard(
                     SetHand(Reseat(s, playerId, handIndex, TRUE),
                             playerId, RemoveAt(Hand(s, playerId), handIndex)), card))
            ELSE IF Len(s.deck) > 0
            THEN ReturnFailure(
                     [SetHand(s, playerId,
                          Append(Hand(s, playerId),
                                 WithPosition(Head(s.deck), Len(Hand(s, playerId)))))
                      EXCEPT !.deck = Tail(s.deck)])
            ELSE ReturnFailure(s)

callKabul(s, playerId) ==
    IF _validateTurn(s, playerId) # "" THEN Throw(s, _validateTurn(s, playerId))
    ELSE IF s.drawnCard # NoDrawnCard
    THEN Throw(s, "Must discard or swap before calling Kabul")
    ELSE Return([s EXCEPT
            !.players[playerId].hasCalledKabul = TRUE,
            !.kabulCaller = playerId,
            !.finalTurnsRemaining = Len(s.turnOrder) - 1,
            !.currentTurnIndex = (s.currentTurnIndex + 1) % Len(s.turnOrder)])

(***************************************************************************)
(* KabulGame: the masked view of a player                                  *)
(***************************************************************************)
\* _maskHand
_maskHand(s, playerId) ==
    [i \in 1..Len(Hand(s, playerId)) |->
        IF s.phase = "MEMORIZE" /\ i - 1 <= 1
        THEN [position |-> i - 1, visible |-> TRUE,
              display |-> Display(Hand(s, playerId)[i]),
              value |-> Value(Hand(s, playerId)[i])]
        ELSE [position |-> i - 1, visible |-> FALSE,
              display |-> <<>>, value |-> 0]]

\* _getPeekedCard that does not compare pending.playerId with the viewer
GetPeekedCard_AnyViewer(s, playerId) ==
    IF s.pendingAction.type = "PEEK_RESULT"
    THEN [position |-> s.pendingAction.handIndex,
          display |-> Display(s.pendingAction.card),
          value |-> Value(s.pendingAction.card),
          targetPlayerId |-> s.pendingAction.targetId]
    ELSE [position |-> NoIndex, display |-> <<>>, value |-> 0,
          targetPlayerId |-> NoPlayer]

\* _getPeekedCard
_getPeekedCard(s, playerId) ==
    IF s.pendingAction.type = "PEEK_RESULT" /\ s.pendingAction.playerId = playerId
    THEN [position |-> s.pendingAction.handIndex,
          display |-> Display(s.pendingAction.card),
          value |-> Value(s.pendingAction.card),
          targetPlayerId |-> s.pendingAction.targetId]
    ELSE [position |-> NoIndex, display |-> <<>>, value |-> 0,
          targetPlayerId |-> NoPlayer]

\* _getOpponentsView
_getOpponentsView(s, myPlayerId) ==
    [i \in 1..Len(s.turnOrder) |->
        IF s.turnOrder[i] = myPlayerId
        THEN [id |-> NoPlayer, cardCount |-> 0, hasCalledKabul |-> FALSE]
        ELSE [id |-> s.turnOrder[i],
              cardCount |-> Len(Hand(s, s.turnOrder[i])),
              hasCalledKabul |-> s.players[s.turnOrder[i]].hasCalledKabul]]

\* _getPendingActionView: null unless the pending action is this player's
_getPendingActionView(s, playerId) ==
    IF s.pendingAction = NoPendingAction THEN "null"
    ELSE IF s.pendingAction.playerId # playerId THEN "null"
    ELSE s.pendingAction.type

\* getClientState
getClientState(s, playerId) ==
    [phase |-> s.phase,
     myHand |-> _maskHand(s, playerId),
     peekedCard |-> _getPeekedCard(s, playerId),
     opponents |-> _getOpponentsView(s, playerId),
     topDiscard |-> IF s.topDiscard # NoCard
                    THEN <<Display(s.topDiscard), Value(s.topDiscard), s.topDiscard.rank>>
                    ELSE <<>>,
     deckCount |-> Len(s.deck),
     currentTurn |-> getCurrentPlayerId(s),
     isMyTurn |-> getCurrentPlayerId(s) = playerId,
     drawnCard |-> IF s.drawnCard.playerId = playerId /\ s.drawnCard # NoDrawnCard
                   THEN <<Display(s.drawnCard.card), Value(s.drawnCard.card),
                          ActionType(s.drawnCard.card)>>
                   ELSE <<>>,
     pendingAction |-> _getPendingActionView(s, playerId),
     kabulCaller |-> s.kabulCaller,
     canSlap |-> s.phase = "PLAYING"]

(***************************************************************************)
(* KabulGame: the games a run starts from                                  *)
(***************************************************************************)
\* One round of plain play by the turn-holder: draw from the deck, discard the
\* drawn card, skip the ability it may have opened.
PlainRound(s) ==
    LET p == getCurrentPlayerId(s)
        s1 == drawCard(s, p, "deck").state
        s2 == discardDrawn(s1, p).state
    IN skipAction(s2, p).state

\* k rounds of plain play (each round is computed before the next is begun)
RECURSIVE PlainRounds(_, _)
PlainRounds(s, k) ==
    IF k = 0 THEN s
    ELSE LET t == PlainRound(s)
         IN IF t.phase = "PLAYING" THEN PlainRounds(t, k - 1) ELSE t

\* A game of two players after startGame and endMemorizePhase
StartedGame(rnd) ==
    endMemorizePhase(
        startGame(addPlayer(addPlayer(NewGame, 1).state, 2).state, rnd).state)

\* rounds of plain play after which one card is left in the deck of a
\* two-player game (54 - 8 - 1 = 45 cards at the start)
LateRounds == 44

\* getServerState of a game whose first player has just discarded the 7 drawn
\* from the deck: the ability it opened is pending
PendingGame == discardDrawn(drawCard(StartedGame(CutDeck), 1, "deck").state, 1).state

\* The game in which player 1 has looked at an own card and ended the peek
\* with skipAction, player 2 has played a round, and player 1 has just
\* discarded the 8 it drew: an own peek is open again, and the timer of the
\* first peek has not fired yet.
StalePeekGame ==
    LET s1 == discardDrawn(drawCard(StartedGame(SlapCut), 1, "deck").state, 1).state
        s2 == skipAction(peekOwnCard(s1, 1, 0).state, 1).state
        s3 == PlainRound(s2)
    IN discardDrawn(drawCard(s3, 1, "deck").state, 1).state

\* loadServerState: JSON.parse(JSON.stringify(state)) copies every object
loadServerState(state) == [state EXCEPT !.pendingAction.shared = FALSE]

(***************************************************************************)
(* FirebaseService: idle values (the engine is modelled further down)      *)
(***************************************************************************)
NoDb == [phase |-> "null"]

(***************************************************************************)
(* KabulGame: the calls a run makes                                        *)
(***************************************************************************)
NoCall ==
    [op |-> "none", playerId |-> NoPlayer, args |-> <<>>, ok |-> TRUE,
     success |-> TRUE, err |-> "", card |-> NoCard]

\* hand indices and player ids callers submit
Indices == -1..MaxIndex
Ids == 1..MaxPlayers

\* A call op(playerId, args) on the game with outcome r, leaving newTimers
\* scheduled. A call that changes nothing is a stuttering step; a gameplay
\* call that changes something is counted in opCount and recorded in last.
Call(op, playerId, args, r, newTimers, counted) ==
    LET changes == r.state # game \/ newTimers # timers
    IN /\ engine = "KabulGame"
       /\ changes
       /\ counted => opCount < MaxOps
       /\ op = "slap" => slapCount < MaxSlaps
       /\ op = "startGame" => starts < MaxStarts
       /\ game' = r.state
       /\ timers' = newTimers
       /\ opCount' = IF counted THEN opCount + 1 ELSE opCount
       /\ slapCount' = IF op = "slap" THEN slapCount + 1 ELSE slapCount
       /\ starts' = IF op = "startGame" THEN starts + 1 ELSE starts
       /\ last' = [op |-> op, playerId |-> playerId, args |-> args,
                   ok |-> r.ok, success |-> r.success, err |-> r.err, card |-> r.card]
       /\ UNCHANGED <<engine, db, procs, fbTimers>>

\* The arguments worth submitting: all of S when the call gets as far as
\* reading them, one of them when it throws before (the outcome is the same
\* for each).
ArgsIf(read, S) == IF read THEN S ELSE {CHOOSE x \in S : TRUE}

\* the room seats players one after the other, each under a fresh id
AddPlayer ==
    /\ Len(game.turnOrder) < MaxPlayers
    /\ Call("addPlayer", Len(game.turnOrder) + 1, <<>>,
            addPlayer(game, Len(game.turnOrder) + 1), timers, FALSE)

\* startGame checks the number of players only: a started game starts again
StartGame ==
    \E rnd \in Randoms :
        Call("startGame", NoPlayer, <<>>, startGame(game, rnd), timers,
             game.phase # "WAITING")

EndMemorizePhase ==
    Call("endMemorizePhase", NoPlayer, <<>>, Return(endMemorizePhase(game)), timers, FALSE)

DrawCard ==
    \E p \in PlayerIds(game), source \in {"deck", "discard"} :
        Call("drawCard", p, <<source>>, drawCard(game, p, source), timers, TRUE)

SwapCard ==
    \E p \in PlayerIds(game) :
        \E i \in ArgsIf(_validateTurn(game, p) = "" /\ _validateDrawnCard(game, p) = "",
                        Indices) :
            Call("swapCard", p, <<i>>, swapCard(game, p, i), timers, TRUE)

DiscardDrawn ==
    \E p \in PlayerIds(game) :
        Call("discardDrawn", p, <<>>, discardDrawn(game, p), timers, TRUE)

\* a peek that returns has scheduled its timer
PeekOwnCard ==
    \E p \in PlayerIds(game) :
        \E i \in ArgsIf(_validatePendingAction(game, p, "CHOOSING_OWN_CARD_TO_PEEK").ok,
                        Indices) :
            LET r == peekOwnCard(game, p, i)
            IN Call("peekOwnCard", p, <<i>>, r,
                    IF r.ok THEN Append(timers, p) ELSE timers, TRUE)

PeekEnemyCard ==
    \E p \in PlayerIds(game) :
        \E a \in ArgsIf(_validatePendingAction(game, p, "CHOOSING_ENEMY_CARD_TO_PEEK").ok,
                        Ids \X Indices) :
            LET r == peekEnemyCard(game, p, a[1], a[2])
            IN Call("peekEnemyCard", p, a, r,
                    IF r.ok THEN Append(timers, p) ELSE timers, TRUE)

BlindSwap ==
    \E p \in PlayerIds(game) :
        \E a \in ArgsIf(_validatePendingAction(game, p, "SWAPPING_CARDS").ok,
                        Indices \X Ids \X Indices) :
            Call("blindSwap", p, a, blindSwap(game, p, a[1], a[2], a[3]), timers, TRUE)

SeeAndSwap ==
    \E p \in PlayerIds(game) :
        \E a \in ArgsIf(_validatePendingAction(game, p, "SEE_AND_SWAPPING_CARDS").ok,
                        Indices \X Ids \X Indices) :
            Call("seeAndSwap", p, a, seeAndSwap(game, p, a[1], a[2], a[3]), timers, TRUE)

SkipAction ==
    \E p \in PlayerIds(game) :
        Call("skipAction", p, <<>>, skipAction(game, p), timers, TRUE)

Slap ==
    \E p \in PlayerIds(game) :
        \E i \in ArgsIf(game.phase = "PLAYING", Indices) :
            Call("slap", p, <<i>>, slap(game, p, i), timers, TRUE)

CallKabul ==
    \E p \in PlayerIds(game) :
        Call("callKabul", p, <<>>, callKabul(game, p), timers, TRUE)

\* loadServerState(getServerState()): the game reloads its own state
LoadServerState ==
    Call("loadServerState", NoPlayer, <<>>, Return(loadServerState(game)), timers, FALSE)

\* the oldest peek timer fires
PeekTimer ==
    /\ timers # <<>>
    /\ Call("_clearPeekAndNextTurn", Head(timers), <<>>,
            Return(_clearPeekAndNextTurn(game, Head(timers))), Tail(timers), TRUE)

\* Date.now() passes expiresAt of the pending ability (ACTION_TIMEOUT)
ActionTimeout ==
    /\ engine = "KabulGame"
    /\ game.pendingAction.type \in
          {"CHOOSING_OWN_CARD_TO_PEEK", "CHOOSING_ENEMY_CARD_TO_PEEK",
           "SWAPPING_CARDS", "SEE_AND_SWAPPING_CARDS"}
    /\ ~game.pendingAction.expired
    /\ game' = [game EXCEPT !.pendingAction.expired = TRUE]
    /\ UNCHANGED <<engine, timers, last, opCount, slapCount, starts, db, procs, fbTimers>>

InitGame ==
    /\ engine = "KabulGame"
    \* a new game, or a game loaded from getServerState: late in play (after
    \* LateRounds plain rounds), with a pending ability, with a stale peek
    \* timer, or with tied hands
    /\ game \in {NewGame, loadServerState(PlainRounds(StartedGame(NoSwaps), LateRounds)),
                 loadServerState(PendingGame),
                 StalePeekGame, loadServerState(StartedGame(TieCut))}
    /\ timers = IF game = StalePeekGame THEN <<1>> ELSE <<>>
    /\ last = NoCall
    /\ opCount = 0
    /\ slapCount = 0
    /\ starts = IF game = NewGame THEN 0 ELSE 1
    /\ db = NoDb
    /\ procs = <<>>
    /\ fbTimers = <<>>

NextGame ==
    \/ AddPlayer
    \/ StartGame
    \/ EndMemorizePhase
    \/ DrawCard
    \/ SwapCard
    \/ DiscardDrawn
    \/ PeekOwnCard
    \/ PeekEnemyCard
    \/ BlindSwap
    \/ SeeAndSwap
    \/ SkipAction
    \/ Slap
    \/ CallKabul
    \/ PeekTimer
    \/ ActionTimeout
    \/ LoadServerState

SpecGame == InitGame /\ [][NextGame]_vars

(***************************************************************************)
(* FirebaseService: the document rooms/{roomId}                            *)
(***************************************************************************)
\* _generateDeck: 4 suits x 13 ranks, then 2 Jokers
_generateDeck ==
    [i \in 1..52 |-> _createCard(RANKS[((i - 1) % 13) + 1], 
                                 <<"S", "H", "D", "C">>[((i - 1) \div 13) + 1])]
    \o <<_createCard("Joker", "null"), _createCard("Joker", "null")>>

\* card.value as _generateDeck sets it under COSTUME_1 (Joker -1, red Kings 0)
CostumeValue(card) ==
    IF card.rank = "Joker" THEN -1
    ELSE IF card.rank = "K" /\ card.suit \in {"H", "D"} THEN 0
    ELSE CARD_VALUES(card.rank)

\* _shuffle: the loop of _shuffleDeck
_shuffle(array, rnd) == ShuffleFrom(array, Len(array) - 1, rnd)

\* gameState.abilityState: null
NoAbility ==
    [type |-> "null", activePlayer |-> NoPlayer, ownCardIndex |-> NoIndex,
     targetPlayer |-> NoPlayer, targetCardIndex |-> NoIndex,
     revealedCardValue |-> NoCard, step |-> "null"]

\* a revealed card: { position, targetPlayerId, rank, suit, value, display }
Reveal(position, targetPlayerId, card) ==
    [position |-> position, targetPlayerId |-> targetPlayerId, card |-> card]

\* private/{playerId}: null (no drawn card, no revealed card)
NoPrivate ==
    [drawnCard |-> NoCard, revealedCard |-> Reveal(NoIndex, NoPlayer, NoCard),
     swapPreview |-> <<>>]

\* players/{playerId} as createRoom and joinRoom write it
\* (stray: the child of hand that is no array position, which _confirmSwap can
\* write; with one the hand is read back as an object, not as an array)
NewRoomPlayer ==
    [hand |-> <<>>, cardCount |-> 0, hasCalledKabul |-> FALSE, finalScore |-> <<>>,
     stray |-> [index |-> NoIndex, card |-> NoCard]]

\* Object.keys(players): the player ids in key order
RECURSIVE KeysFrom(_, _)
KeysFrom(S, k) ==
    IF S = {} THEN <<>>
    ELSE IF k \in S THEN <<k>> \o KeysFrom(S \ {k}, k + 1)
    ELSE KeysFrom(S, k + 1)

Keys(players) == KeysFrom(DOMAIN players, 1)

\* players.indexOf(playerId), -1 when absent
IndexOf(keys, playerId) ==
    IF \E i \in 1..Len(keys) : keys[i] = playerId
    THEN (CHOOSE i \in 1..Len(keys) : keys[i] = playerId) - 1
    ELSE -1

\* the decks _generateDeck and _shuffle leave. The second outcome brings an ace under each
\* dealt hand and onto the discard pile, and a 7 on top of the deck.
FB_Randoms ==
    <<NoSwaps,
      [i \in 1..53 |-> CASE i = 26 -> 8 [] i = 13 -> 4 [] i = 9 -> 6 [] OTHER -> i]>>
FB_ShuffledDeck == [k \in DOMAIN FB_Randoms |-> _shuffle(_generateDeck, FB_Randoms[k])]

\* createRoom
createRoom(hostId, k) ==
    [gameState |->
        [phase |-> "WAITING", currentTurn |-> NoPlayer, turnPhase |-> "WAITING",
         abilityState |-> NoAbility, topDiscard |-> NoCard, deckCount |-> 54,
         kabulCaller |-> NoPlayer, finalTurnsRemaining |-> 0, winner |-> NoPlayer],
     hostId |-> hostId,
     players |-> [p \in {hostId} |-> NewRoomPlayer],
     deck |-> FB_ShuffledDeck[k],
     discardPile |-> <<>>,
     private |-> [p \in 1..MaxPlayers |-> NoPrivate]]

(***************************************************************************)
(* FirebaseService: requests. A handler runs from one awaited database     *)
(* operation to the next; pc names the operation it waits for, loc holds   *)
(* what it has read so far. Operations issued together (Promise.all) are   *)
(* delivered one per step, in the order issued. A write that is issued     *)
(* before the handler throws is still delivered: the request keeps its pc  *)
(* with ok FALSE until then.                                               *)
(***************************************************************************)
\* the outcome of one step: the document, the request, the timers it set
Go(d, pr, pc, loc) ==
    [db |-> d, proc |-> [pr EXCEPT !.pc = pc, !.loc = loc], timers |-> <<>>]

\* return { success }
Finish(d, pr, success) ==
    [db |-> d,
     proc |-> [pr EXCEPT !.pc = "done", !.loc = <<>>, !.args = <<>>, !.success = success],
     timers |-> <<>>]

\* throw new Error(msg)
Reject(d, pr, msg) ==
    [db |-> d,
     proc |-> [pr EXCEPT !.pc = "done", !.loc = <<>>, !.args = <<>>, !.ok = FALSE, !.err = msg],
     timers |-> <<>>]

\* hand[i] is a card
Has(hand, i) == i >= 0 /\ i < Len(hand)

\* player.hand[i]: the card at i, the child i of a hand that is no array, else
\* undefined
HandCard(player, i) ==
    IF Has(player.hand, i) THEN At(player.hand, i)
    ELSE IF i = player.stray.index THEN player.stray.card
    ELSE NoCard

\* The room with the child players/{playerId}: a player who is not in the room
\* reads as a node without fields (no hand), and a write under
\* players/{playerId} creates the node.
Node(d, playerId) ==
    IF playerId \in DOMAIN d.players THEN d
    ELSE [d EXCEPT !.players = (playerId :> NewRoomPlayer) @@ @]

\* set(privateRef, {...}) replaces the node
SetPrivate(d, playerId, node) == [d EXCEPT !.private[playerId] = node]

\* _initiateAbility: update(gameStateRef, { turnPhase, abilityState })
_initiateAbility(d, pr) ==
    LET ability == CARD_ABILITIES(pr.loc.card.rank)
        turnPhase == IF ability = "PEEK_SELF" THEN "SELECTING_OWN_CARD" ELSE "SELECTING_TARGET"
        step == CASE ability = "PEEK_SELF" -> "SELECTING"
                  [] ability = "PEEK_ENEMY" -> "SELECTING_PLAYER"
                  [] OTHER -> "SELECTING_OWN"
    IN Finish([d EXCEPT !.gameState.turnPhase = turnPhase,
                        !.gameState.abilityState =
                            [NoAbility EXCEPT !.type = ability,
                                              !.activePlayer = pr.playerId,
                                              !.step = step]],
              pr, TRUE)

\* the score _endGame computes from a hand
RECURSIVE FB_Score(_, _)
FB_Score(hand, k) ==
    IF k > Len(hand) THEN 0 ELSE CostumeValue(hand[k]) + FB_Score(hand, k + 1)

\* the winner _endGame finds: the first player in key order with the lowest score
RECURSIVE FB_Winner(_, _, _, _)
FB_Winner(players, k, winner, lowestScore) ==
    IF k > Len(Keys(players)) THEN winner
    ELSE LET pid == Keys(players)[k]
             score == FB_Score(players[pid].hand, 1)
         IN IF winner = NoPlayer \/ score < lowestScore
            THEN FB_Winner(players, k + 1, pid, score)
            ELSE FB_Winner(players, k + 1, winner, lowestScore)


\* _endGame: get(playersRef); for each player the score of the hand, then the
\* update of finalScore; then the update of gameState
FB_endGame(d, pr) ==
    LET \* the loop at player k, the writes before it delivered: reduce throws
        \* on a hand that is no array
        Loop(e, players, k) ==
            IF k > Len(Keys(players)) THEN Go(e, pr, "endState", [players |-> players])
            ELSE IF Len(players[Keys(players)[k]].hand) = 0
                    \/ players[Keys(players)[k]].stray.card # NoCard
            THEN Reject(e, pr, "TypeError")
            ELSE Go(e, pr, "endScore", [players |-> players, k |-> k])
    IN CASE pr.pc = "end" ->
               \* Object.entries(null) throws when no player is left
               IF DOMAIN d.players = {} THEN Reject(d, pr, "TypeError")
               ELSE Loop(d, d.players, 1)
         [] pr.pc = "endScore" ->
               LET pid == Keys(pr.loc.players)[pr.loc.k]
               IN Loop([Node(d, pid) EXCEPT !.players[pid].finalScore =
                                     <<FB_Score(pr.loc.players[pid].hand, 1)>>],
                       pr.loc.players, pr.loc.k + 1)
         [] pr.pc = "endState" ->
               Finish([d EXCEPT !.gameState.phase = "ENDED",
                                !.gameState.winner = FB_Winner(pr.loc.players, 1, NoPlayer, 0),
                                !.gameState.turnPhase = "WAITING",
                                !.gameState.abilityState = NoAbility],
                      pr, TRUE)


\* _advanceTurn(roomId, currentPlayerId): get(gameStateRef) and
\* get(playersRef) are issued together and delivered one after the other
_advanceTurn(d, pr) ==
    CASE pr.pc = "advance" ->
            Go(d, pr, "advancePlayers",
               [kabulCaller |-> d.gameState.kabulCaller,
                finalTurnsRemaining |-> d.gameState.finalTurnsRemaining])
      [] pr.pc = "advancePlayers" ->
            LET players == Keys(d.players)
                n == Len(players)
                i1 == (IndexOf(players, pr.playerId) + 1) % n
                i2 == IF players[i1 + 1] = pr.loc.kabulCaller THEN (i1 + 1) % n ELSE i1
                remaining == pr.loc.finalTurnsRemaining - 1
            IN \* Object.keys(null) throws when no player is left
               IF n = 0 THEN Reject(d, pr, "TypeError")
               ELSE IF pr.loc.kabulCaller # NoPlayer
               THEN IF remaining <= 0
                    THEN Go(d, pr, "end", <<>>)
                    ELSE Go(d, pr, "advanceCount",
                            [nextPlayer |-> players[i2 + 1], remaining |-> remaining])
               ELSE Go(d, pr, "advanceTurn", [nextPlayer |-> players[i2 + 1]])
      [] pr.pc = "advanceCount" ->
            Go([d EXCEPT !.gameState.finalTurnsRemaining = pr.loc.remaining],
               pr, "advanceTurn", [nextPlayer |-> pr.loc.nextPlayer])
      [] pr.pc = "advanceTurn" ->
            Finish([d EXCEPT !.gameState.currentTurn = pr.loc.nextPlayer,
                             !.gameState.turnPhase = "DRAWING"],
                   pr, TRUE)

\* the tail of _swapCard and _discardDrawn
AbilityOrAdvance(d, pr, card) ==
    IF CARD_ABILITIES(card.rank) # "NONE" THEN Go(d, pr, "ability", [card |-> card])
    ELSE Go(d, pr, "advance", <<>>)

\* _drawCard that turns to the discard pile when the deck is empty
DrawCard_TurnsToPile(d, pr) ==
    CASE pr.pc = "start" ->
            IF Len(d.deck) = 0 THEN Go(d, [pr EXCEPT !.args = <<"discard">>], "state", <<>>)
            ELSE Go(d, pr, "state", <<>>)
      [] pr.pc = "state" ->
            IF d.gameState.currentTurn # pr.playerId THEN Reject(d, pr, "Not your turn")
            ELSE IF d.gameState.turnPhase # "DRAWING" THEN Reject(d, pr, "Invalid turn phase")
            ELSE Go(d, pr, IF pr.args[1] = "deck" THEN "deck" ELSE "pile", <<>>)
      [] pr.pc = "deck" ->
            IF Len(d.deck) = 0 THEN Reject(d, pr, "Deck is empty after validation")
            ELSE Go(d, pr, "setDeck", [drawnCard |-> Head(d.deck), deck |-> Tail(d.deck)])
      [] pr.pc = "setDeck" ->
            Go([d EXCEPT !.deck = pr.loc.deck], pr, "deckCount", pr.loc)
      [] pr.pc = "deckCount" ->
            LET e == [d EXCEPT !.gameState.deckCount = Len(pr.loc.deck),
                               !.gameState.turnPhase = "DISCARDING"]
            IN IF pr.loc.drawnCard.suit = "null" THEN Reject(e, pr, "set failed")
               ELSE Go(e, pr, "private", pr.loc)
      [] pr.pc = "pile" ->
            IF Len(d.discardPile) = 0 THEN Reject(d, pr, "Discard pile is empty")
            ELSE Go(d, pr, "setPile",
                    [drawnCard |-> d.discardPile[Len(d.discardPile)],
                     pile |-> SubSeq(d.discardPile, 1, Len(d.discardPile) - 1)])
      [] pr.pc = "setPile" ->
            Go([d EXCEPT !.discardPile = pr.loc.pile], pr, "topDiscard", pr.loc)
      [] pr.pc = "topDiscard" ->
            LET e == [d EXCEPT !.gameState.topDiscard =
                                   IF Len(pr.loc.pile) > 0 THEN pr.loc.pile[Len(pr.loc.pile)]
                                   ELSE NoCard,
                               !.gameState.turnPhase = "DISCARDING"]
            IN IF pr.loc.drawnCard.suit = "null" THEN Reject(e, pr, "set failed")
               ELSE Go(e, pr, "private", pr.loc)
      [] pr.pc = "private" ->
            Finish(SetPrivate(d, pr.playerId,
                              [NoPrivate EXCEPT !.drawnCard = pr.loc.drawnCard]),
                   pr, TRUE)

\* _drawCard(roomId, playerId, source)
_drawCard(d, pr) ==
    CASE pr.pc = "start" ->
            IF Len(d.deck) = 0 THEN Reject(d, pr, "Deck is empty")
            ELSE Go(d, pr, "state", <<>>)
      [] pr.pc = "state" ->
            IF d.gameState.currentTurn # pr.playerId THEN Reject(d, pr, "Not your turn")
            ELSE IF d.gameState.turnPhase # "DRAWING" THEN Reject(d, pr, "Invalid turn phase")
            ELSE Go(d, pr, IF pr.args[1] = "deck" THEN "deck" ELSE "pile", <<>>)
      [] pr.pc = "deck" ->
            IF Len(d.deck) = 0 THEN Reject(d, pr, "Deck is empty after validation")
            ELSE Go(d, pr, "setDeck", [drawnCard |-> Head(d.deck), deck |-> Tail(d.deck)])
      [] pr.pc = "setDeck" ->
            Go([d EXCEPT !.deck = pr.loc.deck], pr, "deckCount", pr.loc)
      [] pr.pc = "deckCount" ->
            LET e == [d EXCEPT !.gameState.deckCount = Len(pr.loc.deck),
                               !.gameState.turnPhase = "DISCARDING"]
            IN IF pr.loc.drawnCard.suit = "null" THEN Reject(e, pr, "set failed")
               ELSE Go(e, pr, "private", pr.loc)
      [] pr.pc = "pile" ->
            IF Len(d.discardPile) = 0 THEN Reject(d, pr, "Discard pile is empty")
            ELSE Go(d, pr, "setPile",
                    [drawnCard |-> d.discardPile[Len(d.discardPile)],
                     pile |-> SubSeq(d.discardPile, 1, Len(d.discardPile) - 1)])
      [] pr.pc = "setPile" ->
            Go([d EXCEPT !.discardPile = pr.loc.pile], pr, "topDiscard", pr.loc)
      [] pr.pc = "topDiscard" ->
            LET e == [d EXCEPT !.gameState.topDiscard =
                                   IF Len(pr.loc.pile) > 0 THEN pr.loc.pile[Len(pr.loc.pile)]
                                   ELSE NoCard,
                               !.gameState.turnPhase = "DISCARDING"]
            IN IF pr.loc.drawnCard.suit = "null" THEN Reject(e, pr, "set failed")
               ELSE Go(e, pr, "private", pr.loc)
      [] pr.pc = "private" ->
            Finish(SetPrivate(d, pr.playerId,
                              [NoPrivate EXCEPT !.drawnCard = pr.loc.drawnCard]),
                   pr, TRUE)


\* _swapCard(roomId, playerId, handIndex): the three reads are issued together
\* and delivered one after the other
_swapCard(d, pr) ==
    CASE pr.pc = "start" ->
            Go(d, pr, "getPlayer",
               [currentTurn |-> d.gameState.currentTurn, turnPhase |-> d.gameState.turnPhase])
      [] pr.pc = "getPlayer" ->
            Go(d, pr, "getPrivate",
               [currentTurn |-> pr.loc.currentTurn, turnPhase |-> pr.loc.turnPhase,
                player |-> Node(d, pr.playerId).players[pr.playerId]])
      [] pr.pc = "getPrivate" ->
            LET player == pr.loc.player
                drawnCard == d.private[pr.playerId].drawnCard
            IN IF pr.loc.currentTurn # pr.playerId THEN Reject(d, pr, "Not your turn")
               ELSE IF pr.loc.turnPhase # "DISCARDING" THEN Reject(d, pr, "Must draw first")
               ELSE IF drawnCard = NoCard THEN Reject(d, pr, "No card drawn")
               ELSE IF pr.args[1] < 0 THEN Reject(d, pr, "Invalid hand index")
               \* a player without cards has no hand: player.hand.length throws
               ELSE IF Len(player.hand) = 0 THEN Reject(d, pr, "TypeError")
               \* a hand that is no array has no length, and [...player.hand] throws
               ELSE IF player.stray.card # NoCard THEN Reject(d, pr, "TypeError")
               ELSE IF ~Has(player.hand, pr.args[1]) THEN Reject(d, pr, "Invalid hand index")
               ELSE Go(d, pr, "pushDiscard",
                       [replacedCard |-> At(player.hand, pr.args[1]),
                        newHand |-> [player.hand EXCEPT ![pr.args[1] + 1] = drawnCard]])
      [] pr.pc = "pushDiscard" ->
            \* the new hand card is built with suit: drawnCard.suit, undefined
            \* for a Joker: update(playerRef, { hand }) throws at the call
            IF pr.loc.newHand[pr.args[1] + 1].suit = "null"
            THEN Reject([d EXCEPT !.discardPile = Append(@, pr.loc.replacedCard)],
                        pr, "update failed")
            ELSE Go([d EXCEPT !.discardPile = Append(@, pr.loc.replacedCard)],
                    pr, "hand", pr.loc)
      [] pr.pc = "hand" ->
            Go([Node(d, pr.playerId) EXCEPT
                   !.players[pr.playerId].hand = pr.loc.newHand,
                   !.players[pr.playerId].stray = NewRoomPlayer.stray],
               pr, "topDiscard", pr.loc)
      [] pr.pc = "topDiscard" ->
            Go([d EXCEPT !.gameState.topDiscard = pr.loc.replacedCard], pr, "private", pr.loc)
      [] pr.pc = "private" ->
            AbilityOrAdvance(SetPrivate(d, pr.playerId, NoPrivate), pr, pr.loc.replacedCard)

\* _discardDrawn(roomId, playerId): the two reads are issued together and
\* delivered one after the other
_discardDrawn(d, pr) ==
    CASE pr.pc = "start" ->
            Go(d, pr, "getPrivate",
               [currentTurn |-> d.gameState.currentTurn, turnPhase |-> d.gameState.turnPhase])
      [] pr.pc = "getPrivate" ->
            IF pr.loc.currentTurn # pr.playerId THEN Reject(d, pr, "Not your turn")
            ELSE IF pr.loc.turnPhase # "DISCARDING" THEN Reject(d, pr, "Must draw first")
            ELSE IF d.private[pr.playerId].drawnCard = NoCard THEN Reject(d, pr, "No card drawn")
            ELSE Go(d, pr, "pushDiscard", [discardedCard |-> d.private[pr.playerId].drawnCard])
      [] pr.pc = "pushDiscard" ->
            Go([d EXCEPT !.discardPile = Append(@, pr.loc.discardedCard)], pr, "topDiscard", pr.loc)
      [] pr.pc = "topDiscard" ->
            Go([d EXCEPT !.gameState.topDiscard = pr.loc.discardedCard], pr, "private", pr.loc)
      [] pr.pc = "private" ->
            AbilityOrAdvance(SetPrivate(d, pr.playerId, NoPrivate), pr, pr.loc.discardedCard)

\* return { success: true, revealed }, the 3 s cleanup timer being set
FinishPeek(d, pr) ==
    [Finish(d, pr, TRUE) EXCEPT
        !.timers = <<[kind |-> "peekCleanup", playerId |-> pr.playerId]>>]


\* _selectOwnCard(roomId, playerId, handIndex): the two reads are issued
\* together and delivered one after the other
_selectOwnCard(d, pr) ==
    CASE pr.pc = "start" ->
            Go(d, pr, "getPlayer", [ability |-> d.gameState.abilityState])
      [] pr.pc = "getPlayer" ->
            LET player == Node(d, pr.playerId).players[pr.playerId]
                card == HandCard(player, pr.args[1])
            IN IF pr.loc.ability.activePlayer # pr.playerId
               THEN Reject(d, pr, "Not your ability turn")
               ELSE IF pr.loc.ability.type # "PEEK_SELF"
               THEN Reject(d, pr, "Wrong ability type")
               \* no hand, or no card at handIndex: card.rank throws
               ELSE IF Len(player.hand) = 0 \/ card = NoCard THEN Reject(d, pr, "TypeError")
               \* suit: card.suit is undefined for a Joker: set throws at the call
               ELSE IF card.suit = "null" THEN Reject(d, pr, "set failed")
               ELSE Go(d, pr, "reveal", [card |-> card])
      [] pr.pc = "reveal" ->
            Go(SetPrivate(d, pr.playerId,
                          [NoPrivate EXCEPT !.revealedCard =
                              Reveal(pr.args[1], NoPlayer, pr.loc.card)]),
               pr, "clearAbility", pr.loc)
      [] pr.pc = "clearAbility" ->
            FinishPeek([d EXCEPT !.gameState.turnPhase = "WAITING",
                                 !.gameState.abilityState = NoAbility], pr)

\* _selectEnemyCard(roomId, playerId, targetPlayerId, handIndex): the two
\* reads are issued together and delivered one after the other
_selectEnemyCard(d, pr) ==
    CASE pr.pc = "start" ->
            Go(d, pr, "getTarget", [ability |-> d.gameState.abilityState])
      [] pr.pc = "getTarget" ->
            IF pr.loc.ability.activePlayer # pr.playerId
            THEN Reject(d, pr, "Not your ability turn")
            ELSE IF pr.loc.ability.type # "PEEK_ENEMY"
            THEN Reject(d, pr, "Wrong ability type")
            ELSE IF pr.args[1] = pr.playerId
            THEN Reject(d, pr, "Cannot peek your own card with 9/10")
            ELSE IF pr.args[1] \notin DOMAIN d.players THEN Reject(d, pr, "TypeError")
            ELSE IF Len(d.players[pr.args[1]].hand) = 0
                    \/ HandCard(d.players[pr.args[1]], pr.args[2]) = NoCard
            THEN Reject(d, pr, "TypeError")
            ELSE IF HandCard(d.players[pr.args[1]], pr.args[2]).suit = "null"
            THEN Reject(d, pr, "set failed")
            ELSE Go(d, pr, "reveal", [card |-> HandCard(d.players[pr.args[1]], pr.args[2])])
      [] pr.pc = "reveal" ->
            Go(SetPrivate(d, pr.playerId,
                          [NoPrivate EXCEPT !.revealedCard =
                              Reveal(pr.args[2], pr.args[1], pr.loc.card)]),
               pr, "clearAbility", pr.loc)
      [] pr.pc = "clearAbility" ->
            FinishPeek([d EXCEPT !.gameState.turnPhase = "WAITING",
                                 !.gameState.abilityState = NoAbility], pr)

\* the callback of the cleanup timer: set(privateRef, { revealedCard: null }),
\* then _advanceTurn
PeekCleanup(d, pr) ==
    Go(SetPrivate(d, pr.playerId, NoPrivate), pr, "advance", <<>>)

\* _seeSwapSelectOwn(roomId, playerId, ownIndex)
_seeSwapSelectOwn(d, pr) ==
    Finish([d EXCEPT !.gameState.abilityState.ownCardIndex = pr.args[1],
                     !.gameState.abilityState.step = "SELECTING_TARGET_PLAYER"],
           pr, TRUE)

\* _seeSwapSelectTarget(roomId, playerId, targetPlayerId)
_seeSwapSelectTarget(d, pr) ==
    Finish([d EXCEPT !.gameState.abilityState.targetPlayer = pr.args[1],
                     !.gameState.abilityState.step = "SELECTING_TARGET_CARD"],
           pr, TRUE)

\* _seeSwapReveal(roomId, playerId, targetIndex)
_seeSwapReveal(d, pr) ==
    CASE pr.pc = "start" ->
            IF d.gameState.abilityState = NoAbility THEN Reject(d, pr, "TypeError")
            ELSE Go(d, pr, "target", [ability |-> d.gameState.abilityState])
      [] pr.pc = "target" ->
            \* no such player, or a player without cards, who has no hand
            IF pr.loc.ability.targetPlayer \notin DOMAIN d.players
            THEN Reject(d, pr, "TypeError")
            ELSE IF Len(d.players[pr.loc.ability.targetPlayer].hand) = 0
            THEN Reject(d, pr, "TypeError")
            ELSE Go(d, pr, "own",
                    [ability |-> pr.loc.ability,
                     targetCard |-> HandCard(d.players[pr.loc.ability.targetPlayer],
                                             pr.args[1])])
      [] pr.pc = "own" ->
            LET player == Node(d, pr.playerId).players[pr.playerId]
                ownCard == HandCard(player, pr.loc.ability.ownCardIndex)
            IN \* no hand, or no card at one of the indices: card.rank throws
               IF Len(player.hand) = 0 \/ ownCard = NoCard \/ pr.loc.targetCard = NoCard
               THEN Reject(d, pr, "TypeError")
               \* set throws at the call on suit: undefined of a Joker and on
               \* position: ability.ownCardIndex when no own card was chosen
               ELSE IF pr.loc.targetCard.suit = "null" \/ ownCard.suit = "null"
                       \/ pr.loc.ability.ownCardIndex = NoIndex
               THEN Reject(d, pr, "set failed")
               ELSE Go(d, pr, "preview",
                       [ability |-> pr.loc.ability,
                        targetCard |-> pr.loc.targetCard,
                        ownCard |-> ownCard])
      [] pr.pc = "preview" ->
            Go(SetPrivate(d, pr.playerId,
                          [NoPrivate EXCEPT !.swapPreview =
                              <<Reveal(pr.loc.ability.ownCardIndex, NoPlayer, pr.loc.ownCard),
                                Reveal(pr.args[1], pr.loc.ability.targetPlayer,
                                       pr.loc.targetCard)>>]),
               pr, "confirming", pr.loc)
      [] pr.pc = "confirming" ->
            Finish([d EXCEPT !.gameState.abilityState.targetCardIndex = pr.args[1],
                             !.gameState.abilityState.step = "CONFIRMING",
                             !.gameState.turnPhase = "CONFIRMING_SWAP"],
                   pr, TRUE)


\* _confirmSwap(roomId, playerId, ownIndex, targetIndex): the indices of the
\* payload are not used, those of abilityState are. The two reads are issued
\* together, and so are the four writes; each is delivered on its own.
_confirmSwap(d, pr) ==
    CASE pr.pc = "start" ->
            IF d.gameState.abilityState.activePlayer # pr.playerId
            THEN Reject(d, pr, "Not your ability")
            ELSE Go(d, pr, "getPlayer", [ability |-> d.gameState.abilityState])
      [] pr.pc = "getPlayer" ->
            Go(d, pr, "getTarget",
               [ability |-> pr.loc.ability,
                player |-> Node(d, pr.playerId).players[pr.playerId]])
      [] pr.pc = "getTarget" ->
            LET a == pr.loc.ability
                player == pr.loc.player
            IN \* no such player, a hand that is absent or that is no array
               IF a.targetPlayer \notin DOMAIN d.players THEN Reject(d, pr, "TypeError")
               ELSE IF Len(player.hand) = 0 \/ Len(d.players[a.targetPlayer].hand) = 0
                       \/ player.stray.card # NoCard
                       \/ d.players[a.targetPlayer].stray.card # NoCard
               THEN Reject(d, pr, "TypeError")
               ELSE LET target == d.players[a.targetPlayer]
                        ownCard == HandCard(player, a.ownCardIndex)
                        targetCard == HandCard(target, a.targetCardIndex)
                        \* newPlayerHand[ownCardIndex] = targetCard: in place, at
                        \* the end, or as a property of the array (an index
                        \* further past the end is taken for one as well)
                        newPlayer ==
                            IF Has(player.hand, a.ownCardIndex)
                            THEN [player EXCEPT !.hand[a.ownCardIndex + 1] = targetCard]
                            ELSE IF a.ownCardIndex = Len(player.hand)
                            THEN [player EXCEPT !.hand = Append(@, targetCard)]
                            ELSE [player EXCEPT !.stray =
                                     [index |-> a.ownCardIndex, card |-> targetCard]]
                        loc == [ability |-> a, newPlayer |-> newPlayer,
                                newTargetHand |->
                                    IF ownCard = NoCard THEN <<>>
                                    ELSE [target.hand EXCEPT ![a.targetCardIndex + 1] = ownCard]]
                    IN \* update(playerRef, { hand }) throws on an undefined card
                       IF targetCard = NoCard THEN Reject(d, pr, "update failed")
                       \* so does update(targetRef, { hand }), the first write
                       \* being issued already
                       ELSE IF ownCard = NoCard
                       THEN Go(d, [pr EXCEPT !.ok = FALSE, !.err = "update failed"], "hand", loc)
                       ELSE Go(d, pr, "hand", loc)
      [] pr.pc = "hand" ->
            LET e == [Node(d, pr.playerId) EXCEPT
                         !.players[pr.playerId].hand = pr.loc.newPlayer.hand,
                         !.players[pr.playerId].stray = pr.loc.newPlayer.stray]
            IN IF pr.ok THEN Go(e, pr, "targetHand", pr.loc)
               ELSE Reject(e, pr, pr.err)
      [] pr.pc = "targetHand" ->
            Go([Node(d, pr.loc.ability.targetPlayer) EXCEPT
                   !.players[pr.loc.ability.targetPlayer].hand = pr.loc.newTargetHand,
                   !.players[pr.loc.ability.targetPlayer].stray = NewRoomPlayer.stray],
               pr, "preview", <<>>)
      [] pr.pc = "preview" ->
            Go(SetPrivate(d, pr.playerId, NoPrivate), pr, "clearAbility", <<>>)
      [] pr.pc = "clearAbility" ->
            Go([d EXCEPT !.gameState.turnPhase = "WAITING",
                         !.gameState.abilityState = NoAbility],
               pr, "advance", <<>>)

\* splice(handIndex, 1)
Splice(hand, handIndex) ==
    [i \in 1..(Len(hand) - 1) |-> IF i <= handIndex THEN hand[i] ELSE hand[i + 1]]


\* _slapMatch(roomId, playerId, handIndex), the get/set handler
_slapMatch(d, pr) ==
    CASE pr.pc = "start" ->
            \* a player without cards has no hand: player.hand[handIndex] throws
            LET player == Node(d, pr.playerId).players[pr.playerId]
            IN IF Len(player.hand) = 0 THEN Reject(d, pr, "TypeError")
               ELSE IF HandCard(player, pr.args[1]) = NoCard
               THEN Reject(d, pr, "Card not found")
               ELSE Go(d, pr, "pile", [player |-> player])
      [] pr.pc = "pile" ->
            LET card == HandCard(pr.loc.player, pr.args[1])
            IN IF Len(d.discardPile) = 0 THEN Reject(d, pr, "Discard pile is empty")
               ELSE IF card.rank = d.discardPile[Len(d.discardPile)].rank
               \* [...player.hand] throws on a hand that is no array
               THEN IF pr.loc.player.stray.card # NoCard THEN Reject(d, pr, "TypeError")
                    ELSE Go(d, pr, "setPile",
                            [newHand |-> Splice(pr.loc.player.hand, pr.args[1]),
                             removedCard |-> card,
                             pile |-> Append(d.discardPile, card)])
               ELSE Go(d, pr, "deck", pr.loc)
      [] pr.pc = "setPile" ->
            Go([d EXCEPT !.discardPile = pr.loc.pile], pr, "hand", pr.loc)
      [] pr.pc = "hand" ->
            Go([Node(d, pr.playerId) EXCEPT
                   !.players[pr.playerId].hand = pr.loc.newHand,
                   !.players[pr.playerId].stray = NewRoomPlayer.stray,
                   !.players[pr.playerId].cardCount = Len(pr.loc.newHand)],
               pr, "topDiscard", pr.loc)
      [] pr.pc = "topDiscard" ->
            Finish([d EXCEPT !.gameState.topDiscard = pr.loc.removedCard], pr, TRUE)
      [] pr.pc = "deck" ->
            IF Len(d.deck) = 0 THEN Finish(d, pr, FALSE)
            ELSE IF pr.loc.player.stray.card # NoCard THEN Reject(d, pr, "TypeError")
            ELSE Go(d, pr, "penaltyHand",
                    [newHand |-> Append(pr.loc.player.hand, Head(d.deck)),
                     deck |-> Tail(d.deck)])
      [] pr.pc = "penaltyHand" ->
            Go([Node(d, pr.playerId) EXCEPT
                   !.players[pr.playerId].hand = pr.loc.newHand,
                   !.players[pr.playerId].stray = NewRoomPlayer.stray,
                   !.players[pr.playerId].cardCount = Len(pr.loc.newHand)],
               pr, "setDeck", pr.loc)
      [] pr.pc = "setDeck" ->
            Go([d EXCEPT !.deck = pr.loc.deck], pr, "deckCount", pr.loc)
      [] pr.pc = "deckCount" ->
            Finish([d EXCEPT !.gameState.deckCount = Len(pr.loc.deck)], pr, FALSE)

\* _callKabul(roomId, playerId), then _advanceTurnAfterKabul
_callKabul(d, pr) ==
    CASE pr.pc = "start" ->
            IF d.gameState.currentTurn # pr.playerId THEN Reject(d, pr, "Not your turn")
            ELSE IF d.gameState.turnPhase # "DRAWING"
            THEN Reject(d, pr, "Can only call Kabul at start of turn")
            ELSE Go(d, pr, "players", <<>>)
      [] pr.pc = "players" ->
            \* Object.keys(null) throws when no player is left
            IF DOMAIN d.players = {} THEN Reject(d, pr, "TypeError")
            ELSE Go(d, pr, "flag", [playerCount |-> Cardinality(DOMAIN d.players)])
      [] pr.pc = "flag" ->
            Go([Node(d, pr.playerId) EXCEPT !.players[pr.playerId].hasCalledKabul = TRUE],
               pr, "caller", pr.loc)
      [] pr.pc = "caller" ->
            Go([d EXCEPT !.gameState.kabulCaller = pr.playerId,
                         !.gameState.finalTurnsRemaining = pr.loc.playerCount - 1],
               pr, "next", <<>>)
      [] pr.pc = "next" ->
            LET players == Keys(d.players)
                nextIndex == (IndexOf(players, pr.playerId) + 1) % Len(players)
            IN IF players = <<>> THEN Reject(d, pr, "TypeError")
               ELSE Go(d, pr, "turn", [nextPlayer |-> players[nextIndex + 1]])
      [] pr.pc = "turn" ->
            Finish([d EXCEPT !.gameState.currentTurn = pr.loc.nextPlayer,
                             !.gameState.turnPhase = "DRAWING"],
                   pr, TRUE)


\* _skipAbility(roomId, playerId): update(gameStateRef) and set(privateRef)
\* are issued together and delivered one after the other, then _advanceTurn
_skipAbility(d, pr) ==
    CASE pr.pc = "start" ->
            Go([d EXCEPT !.gameState.turnPhase = "WAITING",
                         !.gameState.abilityState = NoAbility],
               pr, "private", <<>>)
      [] pr.pc = "private" ->
            Go(SetPrivate(d, pr.playerId, NoPrivate), pr, "advance", <<>>)

\* joinRoom(roomId, playerId, playerName): get(roomRef), then update of
\* players/{playerId}, which keeps the fields it does not name
joinRoom(d, pr) ==
    CASE pr.pc = "start" ->
            IF Cardinality(DOMAIN d.players) >= 4 THEN Reject(d, pr, "Room is full")
            ELSE IF d.gameState.phase # "WAITING" THEN Reject(d, pr, "Game already started")
            ELSE Go(d, pr, "join", <<>>)
      [] pr.pc = "join" ->
            Finish([d EXCEPT !.players =
                       [p \in (DOMAIN d.players) \cup {pr.playerId} |->
                           IF p # pr.playerId THEN d.players[p]
                           ELSE IF p \in DOMAIN d.players
                           THEN [d.players[p] EXCEPT !.hand = <<>>, !.cardCount = 0,
                                                     !.hasCalledKabul = FALSE,
                                                     !.stray = NewRoomPlayer.stray]
                           ELSE NewRoomPlayer]],
                   pr, TRUE)

\* leaveRoom(roomId, playerId): set(playerRef, null)
leaveRoom(d, pr) ==
    Finish([d EXCEPT !.players = [p \in (DOMAIN d.players) \ {pr.playerId} |-> d.players[p]]],
           pr, TRUE)

\* the forEach of startGame: 4 cards to each player of playerIds
RECURSIVE FB_Deal(_, _, _, _)
FB_Deal(d, playerIds, deck, k) ==
    IF k > Len(playerIds) THEN [d EXCEPT !.deck = deck]
    ELSE FB_Deal([Node(d, playerIds[k]) EXCEPT
                           !.players[playerIds[k]].hand = SubSeq(deck, 1, 4),
                           !.players[playerIds[k]].stray = NewRoomPlayer.stray,
                           !.players[playerIds[k]].cardCount = 4],
                 playerIds, SubSeq(deck, 5, Len(deck)), k + 1)

\* startGame(roomId, playerId): get(roomRef), then one update of all paths;
\* args[1] names the outcome of the shuffle
FB_startGame(d, pr) ==
    CASE pr.pc = "start" ->
            IF d.hostId # pr.playerId THEN Reject(d, pr, "Only the host can start the game")
            ELSE IF Cardinality(DOMAIN d.players) < 2
            THEN Reject(d, pr, "Need at least 2 players to start")
            ELSE Go(d, pr, "update",
                    [playerIds |-> Keys(d.players), deck |-> FB_ShuffledDeck[pr.args[1]]])
      [] pr.pc = "update" ->
            LET dealt == FB_Deal(d, pr.loc.playerIds, pr.loc.deck, 1)
                firstDiscard == Head(dealt.deck)
            IN [Finish([dealt EXCEPT
                           !.deck = Tail(dealt.deck),
                           !.discardPile = <<firstDiscard>>,
                           !.gameState.phase = "MEMORIZE",
                           !.gameState.turnPhase = "WAITING",
                           !.gameState.currentTurn = pr.loc.playerIds[1],
                           !.gameState.topDiscard = firstDiscard,
                           !.gameState.deckCount = Len(dealt.deck) - 1],
                       pr, TRUE)
                   EXCEPT !.timers = <<[kind |-> "memorizeTimer", playerId |-> pr.playerId]>>]

\* the callback of the timer startGame sets: the memorize phase ends
MemorizeTimer(d, pr) ==
    Finish([d EXCEPT !.gameState.phase = "PLAYING", !.gameState.turnPhase = "DRAWING"],
           pr, TRUE)

\* performAction and the methods called directly: the handler of a request,
\* run up to its next awaited operation
Await(d, pr) ==
    CASE pr.pc = "ability" -> _initiateAbility(d, pr)
      [] pr.pc \in {"advance", "advancePlayers", "advanceCount", "advanceTurn"} ->
            _advanceTurn(d, pr)
      [] pr.pc \in {"end", "endScore", "endState"} -> FB_endGame(d, pr)
      [] OTHER ->
            CASE pr.op \in {"DRAW_DECK", "DRAW_DISCARD"} -> _drawCard(d, pr)
              [] pr.op = "SWAP_CARD" -> _swapCard(d, pr)
              [] pr.op = "DISCARD_DRAWN" -> _discardDrawn(d, pr)
              [] pr.op = "SLAP_MATCH" -> _slapMatch(d, pr)
              [] pr.op = "CALL_KABUL" -> _callKabul(d, pr)
              [] pr.op = "SELECT_OWN_CARD" -> _selectOwnCard(d, pr)
              [] pr.op = "SELECT_ENEMY_CARD" -> _selectEnemyCard(d, pr)
              \* this._selectTargetPlayer is not a function
              [] pr.op = "SELECT_TARGET_PLAYER" -> Reject(d, pr, "TypeError")
              [] pr.op = "CONFIRM_SWAP" -> _confirmSwap(d, pr)
              [] pr.op = "SKIP_ABILITY" -> _skipAbility(d, pr)
              [] pr.op = "_seeSwapSelectOwn" -> _seeSwapSelectOwn(d, pr)
              [] pr.op = "_seeSwapSelectTarget" -> _seeSwapSelectTarget(d, pr)
              [] pr.op = "_seeSwapReveal" -> _seeSwapReveal(d, pr)
              [] pr.op = "peekCleanup" -> PeekCleanup(d, pr)
              [] pr.op = "joinRoom" -> joinRoom(d, pr)
              [] pr.op = "leaveRoom" -> leaveRoom(d, pr)
              [] pr.op = "startGame" -> FB_startGame(d, pr)
              [] pr.op = "memorizeTimer" -> MemorizeTimer(d, pr)

\* player.hand[handIndex] is a card, and it has the rank of the top of the
\* discard pile
SlapMatches(d, playerId, handIndex) ==
    LET player == Node(d, playerId).players[playerId]
    IN /\ Len(player.hand) > 0
       /\ HandCard(player, handIndex) # NoCard
       /\ Len(d.discardPile) > 0
       /\ HandCard(player, handIndex).rank = d.discardPile[Len(d.discardPile)].rank

\* A request as it is submitted. id, matched and overlap are history: the
\* number of the request, whether a slap named a card matching the discard top
\* when it was submitted, and the slaps that were in flight at that moment.
NewRequest(op, playerId, args, d, ps, id) ==
    [op |-> op, playerId |-> playerId, args |-> args, pc |-> "start", loc |-> <<>>,
     ok |-> TRUE, success |-> FALSE, err |-> "", id |-> id,
     matched |-> IF op = "SLAP_MATCH" THEN SlapMatches(d, playerId, args[1]) ELSE FALSE,
     overlap |-> IF op = "SLAP_MATCH"
                 THEN {ps[i].id : i \in {j \in DOMAIN ps : ps[j].op = "SLAP_MATCH"
                                                            /\ ps[j].pc # "done"}}
                 ELSE {}]

(***************************************************************************)
(* FirebaseService: the rooms a run starts from                            *)
(***************************************************************************)
\* The operators of this section bind each intermediate room to a variable
\* (x \in {e}), so that it is computed once.

\* the request r.proc served alone on r.db, from where it stands to its return;
\* with fire, the timers outstanding then fire one after the other, each
\* callback running alone
RECURSIVE Run(_, _)
Run(r, fire) ==
    CHOOSE out \in
        {IF x.proc.pc # "done"
         THEN CHOOSE next \in {Run([n EXCEPT !.timers = x.timers \o n.timers], fire) :
                                  n \in {Await(x.db, x.proc)}} : TRUE
         ELSE IF fire /\ x.timers # <<>>
         THEN Run([db |-> x.db,
                   proc |-> NewRequest(Head(x.timers).kind, Head(x.timers).playerId, <<>>,
                                       x.db, <<>>, 0),
                   timers |-> Tail(x.timers)], fire)
         ELSE x :
            x \in {r}} : TRUE

\* the room after op was served alone and the timers it set have fired
Served(d, op, playerId, args) ==
    CHOOSE out \in
        {Run([db |-> x, proc |-> NewRequest(op, playerId, args, x, <<>>, 0),
              timers |-> <<>>], TRUE).db : x \in {d}} : TRUE

\* a room of players 1 (host) and 2, waiting
FB_WaitingRoom == Served(createRoom(1, 1), "joinRoom", 2, <<>>)

\* the room started on the deck FB_Randoms[2] leaves: hands AS 2S 3S 4S and
\* AH 6S 10S 8S, discard AD, deck 7S JS QS KS 5S ...; player 1 to draw
FB_StartedRoom == Served(FB_WaitingRoom, "startGame", 1, <<2>>)

\* player 1 has discarded the 7 drawn from the deck: PEEK_SELF is open
FB_PeekSelfRoom ==
    Served(Served(FB_StartedRoom, "DRAW_DECK", 1, <<"deck">>), "DISCARD_DRAWN", 1, <<>>)

\* player 2 has swapped the drawn J for the 10: PEEK_ENEMY is open
FB_PeekEnemyRoom ==
    Served(Served(Served(FB_PeekSelfRoom, "SKIP_ABILITY", 1, <<>>),
                  "DRAW_DECK", 2, <<"deck">>),
           "SWAP_CARD", 2, <<2>>)

\* player 1 has discarded the drawn Q and chosen an own card and a target
\* player: SEE_AND_SWAP waits for the target card
FB_SeeSwapRoom ==
    Served(Served(Served(Served(Served(FB_PeekEnemyRoom, "SKIP_ABILITY", 2, <<>>),
                                "DRAW_DECK", 1, <<"deck">>),
                         "DISCARD_DRAWN", 1, <<>>),
                  "_seeSwapSelectOwn", 1, <<0>>),
           "_seeSwapSelectTarget", 1, <<2>>)

\* Plain play until the deck is empty or has a Joker on top, which cannot be
\* drawn (_drawCard throws when it stores it). In a round of plain play the
\* turn-holder draws from the deck, discards the drawn card and skips the
\* ability it may have opened.
RECURSIVE FB_PlayOut(_)
FB_PlayOut(d) ==
    CHOOSE out \in
        {IF Len(x.deck) = 0 \/ x.gameState.phase # "PLAYING" \/ Head(x.deck).suit = "null"
         THEN x
         ELSE CHOOSE next \in
                 {FB_PlayOut(IF d2.gameState.abilityState # NoAbility
                             THEN Served(d2, "SKIP_ABILITY", x.gameState.currentTurn, <<>>)
                             ELSE d2) :
                     d2 \in {Served(Served(x, "DRAW_DECK", x.gameState.currentTurn, <<"deck">>),
                                    "DISCARD_DRAWN", x.gameState.currentTurn, <<>>)}} : TRUE :
            x \in {d}} : TRUE

\* the room played until only the two Jokers are left in the deck, which
\* player 2 then takes as penalties of two slaps that do not match
FB_EmptyDeckRoom ==
    Served(Served(FB_PlayOut(Served(FB_WaitingRoom, "startGame", 1, <<1>>)),
                  "SLAP_MATCH", 2, <<0>>),
           "SLAP_MATCH", 2, <<0>>)

\* a request served alone up to its return: the room it leaves and the timers
\* it has set, which have not fired yet
Returned(d, op, playerId, args) ==
    CHOOSE out \in
        {Run([db |-> x, proc |-> NewRequest(op, playerId, args, x, <<>>, 0),
              timers |-> <<>>], FALSE) : x \in {d}} : TRUE

\* player 1 has looked at an own card (SELECT_OWN_CARD) and then submitted
\* SKIP_ABILITY before the 3 s were over: player 2 is to draw, and the cleanup
\* timer of the peek is still outstanding
FB_StaleTimerRoom ==
    CHOOSE out \in
        {[db |-> Served(r.db, "SKIP_ABILITY", 1, <<>>), timers |-> r.timers] :
            r \in {Returned(FB_PeekSelfRoom, "SELECT_OWN_CARD", 1, <<0>>)}} : TRUE

\* player 1 has called Kabul at the start of the game: player 2 is to draw
FB_KabulRoom == Served(FB_StartedRoom, "CALL_KABUL", 1, <<>>)

\* player 1 has discarded the drawn Q: SEE_AND_SWAP is open at its first step
FB_SeeSwapOpenRoom ==
    Served(Served(Served(FB_PeekEnemyRoom, "SKIP_ABILITY", 2, <<>>),
                  "DRAW_DECK", 1, <<"deck">>),
           "DISCARD_DRAWN", 1, <<>>)

(***************************************************************************)
(* FirebaseService: actions                                                *)
(***************************************************************************)
\* the players of the room
RoomIds == IF db = NoDb THEN {} ELSE DOMAIN db.players

Without(ps, i) == [k \in 1..(Len(ps) - 1) |-> IF k < i THEN ps[k] ELSE ps[k + 1]]

\* A handler is entered: it issues its first database operation, which is
\* delivered in a later step (Resume). A request is counted in opCount when
\* counted is set (timer callbacks are not).
Enter(pr, newTimers, counted) ==
    /\ procs' = Append(procs, pr)
    /\ fbTimers' = newTimers
    /\ opCount' = IF counted THEN opCount + 1 ELSE opCount
    /\ UNCHANGED <<engine, game, timers, last, slapCount, starts, db>>

\* a client submits op(args) on the room
Request(op, playerId, args) ==
    /\ engine = "FirebaseService"
    /\ db # NoDb
    /\ opCount < MaxRequests
    /\ Enter(NewRequest(op, playerId, args, db, procs, opCount + 1), fbTimers, TRUE)

CreateRoom ==
    /\ engine = "FirebaseService"
    /\ db = NoDb
    /\ \E k \in DOMAIN FB_Randoms : db' = createRoom(1, k)
    /\ UNCHANGED <<engine, game, timers, last, opCount, slapCount, starts, procs, fbTimers>>

JoinRoom ==
    /\ \E p \in Ids : Request("joinRoom", p, <<>>)

LeaveRoom ==
    /\ \E p \in Ids : Request("leaveRoom", p, <<>>)

FB_StartGame ==
    \E p \in RoomIds, k \in DOMAIN FB_Randoms : Request("startGame", p, <<k>>)

DRAW_DECK == \E p \in RoomIds : Request("DRAW_DECK", p, <<"deck">>)

DRAW_DISCARD == \E p \in RoomIds : Request("DRAW_DISCARD", p, <<"discard">>)

SWAP_CARD == \E p \in RoomIds, i \in Indices : Request("SWAP_CARD", p, <<i>>)

DISCARD_DRAWN == \E p \in RoomIds : Request("DISCARD_DRAWN", p, <<>>)

SLAP_MATCH == \E p \in RoomIds, i \in Indices : Request("SLAP_MATCH", p, <<i>>)

CALL_KABUL == \E p \in RoomIds : Request("CALL_KABUL", p, <<>>)

SELECT_OWN_CARD == \E p \in RoomIds, i \in Indices : Request("SELECT_OWN_CARD", p, <<i>>)

SELECT_ENEMY_CARD ==
    \E p \in RoomIds, t \in Ids, i \in Indices : Request("SELECT_ENEMY_CARD", p, <<t, i>>)

\* performAction throws before any operation is issued
\* (this._selectTargetPlayer is not a function)
SELECT_TARGET_PLAYER ==
    /\ engine = "FirebaseService"
    /\ db # NoDb
    /\ opCount < MaxRequests
    /\ \E p \in RoomIds, t \in Ids :
          \E r \in {Await(db, NewRequest("SELECT_TARGET_PLAYER", p, <<t>>, db, procs, 0))} :
             r.proc.pc = "done" /\ ~r.proc.ok /\ r.db = db /\ r.timers = <<>>
    /\ UNCHANGED vars

CONFIRM_SWAP == \E p \in RoomIds : Request("CONFIRM_SWAP", p, <<>>)

SKIP_ABILITY == \E p \in RoomIds : Request("SKIP_ABILITY", p, <<>>)

\* the steps of SEE_AND_SWAP, which performAction does not dispatch
SeeSwapSelectOwn ==
    \E p \in RoomIds, i \in Indices : Request("_seeSwapSelectOwn", p, <<i>>)

SeeSwapSelectTarget ==
    \E p \in RoomIds, t \in Ids : Request("_seeSwapSelectTarget", p, <<t>>)

SeeSwapReveal ==
    \E p \in RoomIds, i \in Indices : Request("_seeSwapReveal", p, <<i>>)

\* An awaited operation of a request in flight completes, and the handler
\* runs to its next one. A request that has returned leaves procs, but for the
\* slaps that returned without an error, which are kept for the record.
Resume ==
    /\ engine = "FirebaseService"
    /\ \E i \in DOMAIN procs :
          /\ procs[i].pc # "done"
          /\ \E r \in {Await(db, procs[i])} :
                /\ db' = r.db
                /\ procs' = IF r.proc.pc # "done" \/ (r.proc.op = "SLAP_MATCH" /\ r.proc.ok)
                             THEN [procs EXCEPT ![i] = r.proc]
                             ELSE Without(procs, i)
                /\ fbTimers' = fbTimers \o r.timers
    /\ UNCHANGED <<engine, game, timers, last, opCount, slapCount, starts>>

\* A timer fires and its callback issues its first operation. All timers wait
\* 3000 ms: those of one client (playerId) fire in the order they were set,
\* those of different clients in any order.
FB_Timer ==
    /\ engine = "FirebaseService"
    /\ \E i \in DOMAIN fbTimers :
          /\ \A j \in 1..(i - 1) : fbTimers[j].playerId # fbTimers[i].playerId
          /\ Enter(NewRequest(fbTimers[i].kind, fbTimers[i].playerId, <<>>, db, procs, 0),
                   Without(fbTimers, i), FALSE)

\* no room yet, or a room in play; the last one is the room played until the
\* two Jokers are the deck
InitFB ==
    /\ engine = "FirebaseService"
    /\ \E r \in {FB_StaleTimerRoom} \cup
                 {[db |-> d, timers |-> <<>>] :
                     d \in {NoDb, FB_StartedRoom, FB_PeekSelfRoom, FB_PeekEnemyRoom,
                            FB_SeeSwapRoom, FB_EmptyDeckRoom, FB_KabulRoom, FB_SeeSwapOpenRoom,
                            FB_PlayOut(Served(FB_WaitingRoom, "startGame", 1, <<1>>))}} :
          /\ db = r.db
          /\ fbTimers = r.timers
    /\ procs = <<>>
    /\ game = NewGame
    /\ timers = <<>>
    /\ last = NoCall
    /\ opCount = 0
    /\ slapCount = 0
    /\ starts = 0

NextFB ==
    \/ CreateRoom
    \/ JoinRoom
    \/ LeaveRoom
    \/ FB_StartGame
    \/ DRAW_DECK
    \/ DRAW_DISCARD
    \/ SWAP_CARD
    \/ DISCARD_DRAWN
    \/ SLAP_MATCH
    \/ CALL_KABUL
    \/ SELECT_OWN_CARD
    \/ SELECT_ENEMY_CARD
    \/ SELECT_TARGET_PLAYER
    \/ CONFIRM_SWAP
    \/ SKIP_ABILITY
    \/ SeeSwapSelectOwn
    \/ SeeSwapSelectTarget
    \/ SeeSwapReveal
    \/ Resume
    \/ FB_Timer

SpecFB == InitFB /\ [][NextFB]_vars

\* the runs in which clients only go through performAction: the requests it
\* dispatches, their awaited operations and the timer callbacks
NextPerformAction ==
    \/ DRAW_DECK
    \/ DRAW_DISCARD
    \/ SWAP_CARD
    \/ DISCARD_DRAWN
    \/ SLAP_MATCH
    \/ CALL_KABUL
    \/ SELECT_OWN_CARD
    \/ SELECT_ENEMY_CARD
    \/ SELECT_TARGET_PLAYER
    \/ CONFIRM_SWAP
    \/ SKIP_ABILITY
    \/ Resume
    \/ FB_Timer

SpecPerformAction == InitFB /\ [][NextPerformAction]_vars

\* The runs in which slaps meet the turn-holder's swap or discard of the card
\* it has drawn: at the start player 1 has drawn from the deck and holds the
\* drawn card.
InitSlapRace ==
    /\ engine = "FirebaseService"
    /\ db = Served(FB_StartedRoom, "DRAW_DECK", 1, <<"deck">>)
    /\ procs = <<>>
    /\ fbTimers = <<>>
    /\ game = NewGame
    /\ timers = <<>>
    /\ last = NoCall
    /\ opCount = 0
    /\ slapCount = 0
    /\ starts = 0

NextSlapRace ==
    \/ SWAP_CARD
    \/ DISCARD_DRAWN
    \/ SLAP_MATCH
    \/ Resume

SpecSlapRace == InitSlapRace /\ [][NextSlapRace]_vars

\* The runs in which draws meet each other: at the start player 1 is to draw
\* in the room just started.
InitDrawRace ==
    /\ engine = "FirebaseService"
    /\ db = FB_StartedRoom
    /\ procs = <<>>
    /\ fbTimers = <<>>
    /\ game = NewGame
    /\ timers = <<>>
    /\ last = NoCall
    /\ opCount = 0
    /\ slapCount = 0
    /\ starts = 0

NextDrawRace == DRAW_DECK \/ DRAW_DISCARD \/ Resume

SpecDrawRace == InitDrawRace /\ [][NextDrawRace]_vars

(***************************************************************************)
(* The shuffles, applied to a deck on their own                            *)
(***************************************************************************)
\* the decks shuffled: every sequence of up to MaxDeck cards, among them the
\* Joker, of which a deck holds two
InitShuffle ==
    /\ engine = "shuffle"
    /\ \E n \in 0..MaxDeck :
          \E deck \in [1..n -> {_createCard("A", "H"), _createCard("2", "H"),
                                _createCard("Joker", "null")}] :
              game = [NewGame EXCEPT !.deck = deck]
    /\ timers = <<>>
    /\ last = NoCall
    /\ opCount = 0
    /\ slapCount = 0
    /\ starts = 0
    /\ db = NoDb
    /\ procs = <<>>
    /\ fbTimers = <<>>

\* One of the three shuffles runs on the deck; last.args is the deck it got.
\* rnd holds the outcomes of Math.random() over the loop: j in 0..i at step i.
Shuffle ==
    /\ engine = "shuffle"
    /\ last = NoCall
    /\ \E op \in {"_shuffleDeck", "_shuffle", "shuffleDeck"},
          rnd \in {f \in [1..(Len(game.deck) - 1) -> 0..(Len(game.deck) - 1)] :
                      \A i \in DOMAIN f : f[i] <= i} :
          /\ game' = [game EXCEPT !.deck = CASE op = "_shuffleDeck" -> _shuffleDeck(@, rnd)
                                              [] op = "_shuffle" -> _shuffle(@, rnd)
                                              [] op = "shuffleDeck" -> shuffleDeck(@, rnd)]
          /\ last' = [NoCall EXCEPT !.op = op, !.args = game.deck]
    /\ UNCHANGED <<engine, timers, opCount, slapCount, starts, db, procs, fbTimers>>

SpecShuffle == InitShuffle /\ [][Shuffle]_vars

(***************************************************************************)
(* Either engine                                                           *)
(***************************************************************************)
(***************************************************************************)
(* GameLogic: callKabul and nextTurn                                       *)
(***************************************************************************)
\* The state a GameLogic is constructed on: players seated, nobody has
\* called Kabul. gameEnded is false, true or "complete"; _kabulCallerIndex
\* is undefined (NoIndex) until callKabul. opCount counts the nextTurn calls
\* made since construction or since the last callKabul.
InitGameLogic ==
    /\ engine = "GameLogic"
    /\ \E n \in 1..(MaxPlayers + 1), i \in 0..MaxPlayers :
          /\ i < n
          /\ game = [players |-> [p \in 1..n |-> [hasCalledKabul |-> FALSE]],
                     currentPlayerIndex |-> i,
                     gameEnded |-> "false",
                     _kabulCallerIndex |-> NoIndex]
    /\ timers = <<>>
    /\ last = NoCall
    /\ opCount = 0
    /\ slapCount = 0
    /\ starts = 0
    /\ db = NoDb
    /\ procs = <<>>
    /\ fbTimers = <<>>

\* GameLogic.callKabul
GL_callKabul(s) ==
    [s EXCEPT !.players[s.currentPlayerIndex + 1].hasCalledKabul = TRUE,
              !.gameEnded = "true",
              !._kabulCallerIndex = s.currentPlayerIndex]

\* nextTurn that looks for the caller before it advances the index
NextTurn_BeforeAdvance(s) ==
    LET t == [s EXCEPT !.currentPlayerIndex = (s.currentPlayerIndex + 1) % Len(s.players)]
    IN IF s.gameEnded # "false" /\ s.currentPlayerIndex = s._kabulCallerIndex
       THEN [state |-> [t EXCEPT !.gameEnded = "complete"], ret |-> TRUE]
       ELSE [state |-> t, ret |-> FALSE]

\* GameLogic.nextTurn: the state it leaves and the value it returns
nextTurn(s) ==
    LET t == [s EXCEPT !.currentPlayerIndex = (s.currentPlayerIndex + 1) % Len(s.players)]
    IN IF t.gameEnded # "false" /\ t.currentPlayerIndex = t._kabulCallerIndex
       THEN [state |-> [t EXCEPT !.gameEnded = "complete"], ret |-> TRUE]
       ELSE [state |-> t, ret |-> FALSE]

GL_CallKabul ==
    /\ engine = "GameLogic"
    /\ game' = GL_callKabul(game)
    /\ last' = [NoCall EXCEPT !.op = "callKabul"]
    /\ opCount' = 0
    /\ UNCHANGED <<engine, timers, slapCount, starts, db, procs, fbTimers>>

GL_NextTurn ==
    /\ engine = "GameLogic"
    /\ opCount < MaxPlayers + 2
    /\ game' = nextTurn(game).state
    /\ last' = [NoCall EXCEPT !.op = "nextTurn", !.success = nextTurn(game).ret]
    /\ opCount' = opCount + 1
    /\ UNCHANGED <<engine, timers, slapCount, starts, db, procs, fbTimers>>

SpecGameLogic == InitGameLogic /\ [][GL_CallKabul \/ GL_NextTurn]_vars

\* One engine alone, or a client that holds a game and a room at once: the
\* game, late in play, is the one played, and the room stands in play with
\* its deck empty.
Init ==
    \/ InitGame
    \/ InitFB
    \/ /\ engine = "KabulGame"
       /\ game = loadServerState(PlainRounds(StartedGame(NoSwaps), LateRounds))
       /\ timers = <<>>
       /\ last = NoCall
       /\ opCount = 0
       /\ slapCount = 0
       /\ starts = 1
       /\ db = FB_EmptyDeckRoom
       /\ procs = <<>>
       /\ fbTimers = <<>>

Next == NextGame \/ NextFB

Spec == Init /\ [][Next]_vars

(***************************************************************************)
(* KabulGame: properties                                                   *)
(***************************************************************************)
\* a game started once and played since (no second startGame)
StartedOnce == starts = 1 /\ game.phase # "WAITING"

\* the call the step made changed the state and is recorded in last'
Called == opCount' = opCount + 1

RECURSIVE HandsFrom(_, _)
HandsFrom(s, k) ==
    IF k > Len(s.turnOrder) THEN 0
    ELSE Len(Hand(s, s.turnOrder[k])) + HandsFrom(s, k + 1)

\* |deck| + |discardPile| + the sum of the hand lengths
CardsInPlay(s) == Len(s.deck) + Len(s.discardPile) + HandsFrom(s, 1)

\* C1 (as stated): in every state of a started game the deck, the discard pile
\* and the hands hold 54 cards together, also right after a drawCard.
C1_CardCount == StartedOnce => CardsInPlay(game) = 54

\* C1 (amended): the deck, the discard pile, the hands and the drawn card (one
\* card while drawnCard is non-null) hold 54 cards together.
C1_CardCountWithDrawn ==
    StartedOnce =>
        CardsInPlay(game) + (IF game.drawnCard # NoDrawnCard THEN 1 ELSE 0) = 54

\* a drawCard has just returned and its card is held in drawnCard
C1_AfterDraw ==
    /\ StartedOnce
    /\ last.op = "drawCard" /\ last.ok
    /\ game.drawnCard.card = last.card
    /\ game.drawnCard # NoDrawnCard

\* the calls that complete a turn: a swapCard or discardDrawn whose discarded
\* card opens no ability, a blindSwap or seeAndSwap that returned, a skipAction
\* that changed the state, a peek timer that found its PEEK_RESULT pending
CompletesTurn ==
    \/ last'.op \in {"swapCard", "discardDrawn"} /\ last'.ok
          /\ ActionType(last'.card) = "NONE"
    \/ last'.op \in {"blindSwap", "seeAndSwap"} /\ last'.ok
    \/ last'.op = "skipAction"
    \/ last'.op = "_clearPeekAndNextTurn"
          /\ game.pendingAction.type = "PEEK_RESULT"
          /\ game.pendingAction.playerId = last'.playerId

\* C2: callKabul sets finalTurnsRemaining to n - 1 and passes the turn to the
\* next player; from then on every completed turn of a player other than the
\* caller lowers finalTurnsRemaining by exactly 1, and the phase becomes ENDED
\* in the very call that brings the counter to 0.
C2_KabulCountdown ==
    [][(StartedOnce /\ Called /\ last'.op # "startGame") =>
          /\ (last'.op = "callKabul" /\ last'.ok) =>
                /\ game'.finalTurnsRemaining = Len(game.turnOrder) - 1
                /\ game'.currentTurnIndex =
                       (game.currentTurnIndex + 1) % Len(game.turnOrder)
                /\ game'.phase = "PLAYING"
          /\ (game.kabulCaller # NoPlayer /\ last'.playerId # game.kabulCaller
                 /\ CompletesTurn) =>
                game'.finalTurnsRemaining = game.finalTurnsRemaining - 1
          /\ (game.phase # "ENDED" /\ game'.phase = "ENDED") <=>
                (game.finalTurnsRemaining > 0 /\ game'.finalTurnsRemaining = 0)
      ]_vars

\* C3: a player who has called Kabul never holds the turn again while the game
\* is played, whatever the others do (a callKabul of their own included).
C3_CallerNeverHoldsTurn ==
    StartedOnce =>
        \A p \in PlayerIds(game) :
            (game.phase = "PLAYING" /\ game.players[p].hasCalledKabul)
                => getCurrentPlayerId(game) # p

(***************************************************************************)
(* Hidden card identities: the states that differ from s in the identity   *)
(* of one card the viewer q must not see                                   *)
(***************************************************************************)
OtherCards == {_createCard("A", "S"), _createCard("K", "H"), _createCard("Joker", "null")}

\* card c under the identity of card o (its place in the hand is kept)
Disguised(c, o) == [c EXCEPT !.rank = o.rank, !.suit = o.suit]

HiddenVariants(s, q) ==
    \* a card in the hand of another player
    { [s EXCEPT !.players[p].hand[i] = Disguised(@, o)] :
          <<p, i, o>> \in { x \in (PlayerIds(s) \ {q}) \X (1..6) \X OtherCards :
                               x[2] <= Len(Hand(s, x[1])) } }
    \cup
    \* the card on top of the deck and the card at its bottom
    { [s EXCEPT !.deck[i] = Disguised(@, o)] :
          <<i, o>> \in { x \in {1, Len(s.deck)} \X OtherCards : x[1] <= Len(s.deck) } }
    \cup
    \* the card another player has drawn
    { [s EXCEPT !.drawnCard.card = Disguised(@, o)] :
          o \in { x \in OtherCards :
                     s.drawnCard # NoDrawnCard /\ s.drawnCard.playerId # q } }
    \cup
    \* the card another player is looking at
    { [s EXCEPT !.pendingAction.card = Disguised(@, o)] :
          o \in { x \in OtherCards :
                     s.pendingAction.type = "PEEK_RESULT"
                         /\ s.pendingAction.playerId # q } }

NoPeekedCard ==
    [position |-> NoIndex, display |-> <<>>, value |-> 0, targetPlayerId |-> NoPlayer]

\* C5: the view getClientState(q) of a player q does not depend on the identity
\* of a card in another player's hand, in the deck or drawn by another player
\* (two states that differ only there give q the same view), and while another
\* player's PEEK_RESULT is pending q's view has no peekedCard and no
\* pendingAction.
C5_ViewHidesCards ==
    \A q \in PlayerIds(game) :
        /\ \A v \in HiddenVariants(game, q) :
               getClientState(v, q) = getClientState(game, q)
        /\ (game.pendingAction.type = "PEEK_RESULT" /\ game.pendingAction.playerId # q)
               => /\ getClientState(game, q).peekedCard = NoPeekedCard
                  /\ getClientState(game, q).pendingAction = "null"

\* a player is looking at a card while another player is seated
C5_PeekPending ==
    /\ game.pendingAction.type = "PEEK_RESULT"
    /\ last.op \in {"peekOwnCard", "peekEnemyCard"} /\ last.ok
    /\ game.pendingAction.card = last.card
    /\ \E q \in PlayerIds(game) :
           /\ q # game.pendingAction.playerId
           /\ HiddenVariants(game, q) # {}

\* the cases in which the claim has drawCard(p, source) fail
DrawRefused(s, p, source) ==
    \/ getCurrentPlayerId(s) # p
    \/ s.drawnCard # NoDrawnCard
    \/ s.pendingAction # NoPendingAction
    \/ source = "deck" /\ Len(s.deck) = 0
    \/ source = "discard" /\ Len(s.discardPile) = 0

\* C8: while the game is played, drawCard(p, source) fails and changes nothing
\* when p does not hold the turn, a drawn card is unresolved, an ability is
\* pending (the turn is past its DRAWING sub-phase) or the source is empty; it
\* succeeds otherwise.
C8_DrawCardPreconditions ==
    game.phase = "PLAYING" =>
        \A p \in PlayerIds(game), source \in {"deck", "discard"} :
            LET r == drawCard(game, p, source)
            IN IF DrawRefused(game, p, source)
               THEN ~r.ok /\ r.state = game
               ELSE r.ok

\* C9: callKabul(p) succeeds only when the game is played, p holds the turn, no
\* card is drawn and no ability is pending; otherwise it fails and changes
\* nothing.
C9_CallKabulPreconditions ==
    \A p \in PlayerIds(game) :
        LET r == callKabul(game, p)
        IN IF /\ game.phase = "PLAYING"
              /\ getCurrentPlayerId(game) = p
              /\ game.drawnCard = NoDrawnCard
              /\ game.pendingAction = NoPendingAction
           THEN r.ok
           ELSE ~r.ok /\ r.state = game

\* C10: a drawn card belongs to the player who holds the turn, and the turn
\* does not pass to another player while a drawn card is unresolved.
C10_DrawnCardOfTurnHolder ==
    game.drawnCard # NoDrawnCard =>
        game.drawnCard.playerId = getCurrentPlayerId(game)

(***************************************************************************)
(* FirebaseService: properties                                             *)
(***************************************************************************)
\* C4: of two SLAP_MATCH requests by different players, each naming a card
\* that matches the discard top when it is submitted, the second submitted
\* while the first is in flight, exactly one returns success.
C4_OneSlapWins ==
    \A i, j \in DOMAIN procs :
        (/\ procs[i].op = "SLAP_MATCH" /\ procs[j].op = "SLAP_MATCH"
         /\ procs[i].pc = "done" /\ procs[j].pc = "done"
         /\ procs[i].playerId # procs[j].playerId
         /\ procs[i].matched /\ procs[j].matched
         /\ procs[i].id \in procs[j].overlap)
        => procs[i].success # procs[j].success

\* the card identities gameState holds
PublicCards(d) == {d.gameState.topDiscard, d.gameState.abilityState.revealedCardValue} \ {NoCard}

\* the card identities a private node reveals
RevealedCards(node) ==
    ({node.revealedCard.card} \cup {node.swapPreview[k].card : k \in DOMAIN node.swapPreview})
        \ {NoCard}

\* The acting player of a reveal request in flight: the activePlayer of the
\* abilityState it has read (or is about to read). _selectOwnCard and
\* _selectEnemyCard no longer hold the abilityState when they write, and have
\* returned unless their caller was its activePlayer.
ActingPlayer(d, pr) ==
    IF pr.pc = "start" THEN d.gameState.abilityState.activePlayer
    ELSE IF pr.pc \in {"reveal", "clearAbility"} THEN pr.playerId
    ELSE pr.loc.ability.activePlayer

\* the next step of request pr writes no card identity outside the private
\* node of the acting player
WritesActingPrivateOnly(d, pr) ==
    LET r == Await(d, pr)
    IN /\ PublicCards(r.db) \subseteq PublicCards(d)
       /\ \A q \in DOMAIN d.private :
             q # ActingPlayer(d, pr) =>
                 RevealedCards(r.db.private[q]) \subseteq RevealedCards(d.private[q])
       /\ r.db.players = d.players
       /\ r.db.deck = d.deck
       /\ r.db.discardPile = d.discardPile

\* C6: every step of a SELECT_OWN_CARD, a SELECT_ENEMY_CARD or a SEE_AND_SWAP
\* reveal in flight leaves the card identities of gameState, the hands, the
\* deck and the discard pile as they are, and writes no card identity into
\* the private node of a player other than the acting player (the
\* activePlayer of the ability): the revealed card is written under
\* private/{acting player} only.
C6_RevealIsPrivate ==
    (engine = "FirebaseService" /\ db # NoDb) =>
        \A i \in DOMAIN procs :
            (/\ procs[i].op \in {"SELECT_OWN_CARD", "SELECT_ENEMY_CARD", "_seeSwapReveal"}
             /\ procs[i].pc # "done")
            => WritesActingPrivateOnly(db, procs[i])

\* the DRAW_DECK requests of the turn-holder: one submitted now, and those in
\* flight that have not read the deck for the second time
DrawsFromDeck(d, ps) ==
    {NewRequest("DRAW_DECK", d.gameState.currentTurn, <<"deck">>, d, ps, 0)}
    \cup {ps[i] : i \in {j \in DOMAIN ps : /\ ps[j].op = "DRAW_DECK"
                                           /\ ps[j].pc \in {"start", "state", "deck"}
                                           /\ ps[j].playerId = d.gameState.currentTurn}}

\* C7: with an empty deck, a draw from the deck by the turn-holder throws and
\* changes nothing, in KabulGame (drawCard) and in FirebaseService (DRAW_DECK,
\* served to its end).
C7_EmptyDeckDrawFails ==
    /\ (engine = "KabulGame" /\ Len(game.deck) = 0) =>
          \A p \in PlayerIds(game) :
              p = getCurrentPlayerId(game) =>
                  /\ ~drawCard(game, p, "deck").ok
                  /\ drawCard(game, p, "deck").state = game
    /\ (db # NoDb /\ Len(db.deck) = 0) =>
          \A pr \in DrawsFromDeck(db, procs) :
              /\ ~Run(Await(db, pr), FALSE).proc.ok
              /\ Run(Await(db, pr), FALSE).db = db
              /\ Run(Await(db, pr), FALSE).timers = <<>>

\* The decks of both engines have run out. The deck of the game in play ran
\* out in this run, nothing is drawn, and drawCard by the turn-holder is
\* refused for that reason; the deck of the room in play is empty, its
\* turn-holder is to draw, and the DRAW_DECK is refused for that reason.
C7_DeckRanOut ==
    /\ engine = "KabulGame"
    /\ game.phase = "PLAYING"
    /\ Len(game.deck) = 0
    /\ game.drawnCard = NoDrawnCard
    /\ opCount > 0
    /\ drawCard(game, getCurrentPlayerId(game), "deck").err = "Deck is empty"
    /\ db # NoDb
    /\ db.gameState.phase = "PLAYING"
    /\ db.gameState.turnPhase = "DRAWING"
    /\ Len(db.deck) = 0
    /\ Len(db.discardPile) > 0
    /\ Returned(db, "DRAW_DECK", db.gameState.currentTurn, <<"deck">>).proc.err = "Deck is empty"

\* no request and no timer callback is running
Idle ==
    /\ engine = "FirebaseService"
    /\ db # NoDb
    /\ \A i \in DOMAIN procs : procs[i].pc = "done"

\* the turn phases in which an ability is being resolved
SelectionPhases == {"SELECTING_OWN_CARD", "SELECTING_TARGET", "CONFIRMING_SWAP"}

\* C11: in FirebaseService, after any sequence of performAction calls and
\* timer firings, whenever no action is in flight, a non-null
\* gameState.abilityState implies that gameState.turnPhase is
\* SELECTING_OWN_CARD, SELECTING_TARGET or CONFIRMING_SWAP.
C11_AbilityInSelectionPhase ==
    (Idle /\ db.gameState.abilityState # NoAbility)
        => db.gameState.turnPhase \in SelectionPhases

\* C12: in FirebaseService, once a Kabul caller is recorded the stored
\* gameState.finalTurnsRemaining never increases, and in the state in which
\* phase becomes ENDED the stored finalTurnsRemaining is 0.
C12_CountdownEndsAtZero ==
    [][(engine = "FirebaseService" /\ db # NoDb /\ db.gameState.kabulCaller # NoPlayer)
         => /\ db'.gameState.finalTurnsRemaining <= db.gameState.finalTurnsRemaining
            /\ (db.gameState.phase # "ENDED" /\ db'.gameState.phase = "ENDED")
                  => db'.gameState.finalTurnsRemaining = 0]_vars

\* C13: performAction(room, p, SKIP_ABILITY) changes neither currentTurn nor
\* turnPhase nor finalTurnsRemaining unless an ability is pending and p is
\* its active player: a SKIP_ABILITY request of p whose first operation
\* arrives while p is not the active player of a pending ability, served from
\* there to its return, leaves the three fields as they are.
C13_SkipAbilityAuthorized ==
    (engine = "FirebaseService" /\ db # NoDb) =>
        \A i \in DOMAIN procs :
            (/\ procs[i].op = "SKIP_ABILITY"
             /\ procs[i].pc = "start"
             /\ db.gameState.abilityState.activePlayer # procs[i].playerId)
            => LET e == Run([db |-> db, proc |-> procs[i], timers |-> <<>>], FALSE).db
               IN /\ e.gameState.currentTurn = db.gameState.currentTurn
                  /\ e.gameState.turnPhase = db.gameState.turnPhase
                  /\ e.gameState.finalTurnsRemaining = db.gameState.finalTurnsRemaining

\* SEE_AND_SWAP is pending for p at its first step
SeeSwapPending(d, p) ==
    /\ d.gameState.abilityState.type = "SEE_AND_SWAP"
    /\ d.gameState.abilityState.activePlayer = p
    /\ d.gameState.abilityState.step = "SELECTING_OWN"

\* the request returned { success: true } and left the ability at step
Stepped(r, step) ==
    /\ r.proc.ok
    /\ r.proc.success
    /\ r.db.gameState.abilityState.step = step

\* the player after p in key order
NextInRoom(d, p) == Keys(d.players)[((IndexOf(Keys(d.players), p) + 1) % Len(Keys(d.players))) + 1]

\* C14: in FirebaseService, once SEE_AND_SWAP is pending for p at step
\* SELECTING_OWN, the calls SELECT_OWN_CARD, SELECT_TARGET_PLAYER,
\* SELECT_ENEMY_CARD, CONFIRM_SWAP of p succeed in that order, moving the step
\* through SELECTING_TARGET_PLAYER, SELECTING_TARGET_CARD and CONFIRMING, and
\* end with the two cards exchanged, abilityState cleared and the turn with
\* the next player.
C14_SeeSwapFlow ==
    \A p \in RoomIds, t \in RoomIds, i \in Indices, j \in Indices :
        (/\ Idle
         /\ db.gameState.phase = "PLAYING"
         /\ db.gameState.kabulCaller = NoPlayer
         /\ SeeSwapPending(db, p)
         /\ t # p
         /\ Has(db.players[p].hand, i)
         /\ Has(db.players[t].hand, j))
        => LET r1 == Returned(db, "SELECT_OWN_CARD", p, <<i>>)
               r2 == Returned(r1.db, "SELECT_TARGET_PLAYER", p, <<t>>)
               r3 == Returned(r2.db, "SELECT_ENEMY_CARD", p, <<t, j>>)
               r4 == Returned(r3.db, "CONFIRM_SWAP", p, <<>>)
           IN /\ Stepped(r1, "SELECTING_TARGET_PLAYER")
              /\ Stepped(r2, "SELECTING_TARGET_CARD")
              /\ Stepped(r3, "CONFIRMING")
              /\ r4.proc.ok
              /\ r4.proc.success
              /\ At(r4.db.players[p].hand, i) = At(db.players[t].hand, j)
              /\ At(r4.db.players[t].hand, j) = At(db.players[p].hand, i)
              /\ r4.db.gameState.abilityState = NoAbility
              /\ r4.db.gameState.currentTurn = NextInRoom(db, p)

(***************************************************************************)
(* KabulGame: abilities, timers and slaps                                  *)
(***************************************************************************)
\* every hand of s2 is the hand it was in s
SameHands(s, s2) == \A q \in DOMAIN s.players : Hand(s2, q) = Hand(s, q)

\* this step is a call of op that returned
Returns(op) == Called /\ last'.op = op /\ last'.ok

\* C15: in KabulGame, a seeAndSwap call that shows the acting player the two
\* cards exchanges nothing: every hand is as before and the ability is still
\* pending, so that the player can confirm or abandon it afterwards.
C15_RevealBeforeExchange ==
    [][Returns("seeAndSwap")
         => /\ SameHands(game, game')
            /\ game'.pendingAction.type = "SEE_AND_SWAPPING_CARDS"
            /\ game'.pendingAction.playerId = last'.playerId]_vars

\* the index of the first player behind the turn-holder, in turn order, who
\* is not the Kabul caller
NextNonCaller(s) ==
    LET n == Len(s.turnOrder)
        seat(k) == (s.currentTurnIndex + k) % n
        k == CHOOSE k \in 1..n :
                 /\ At(s.turnOrder, seat(k)) # s.kabulCaller
                 /\ \A j \in 1..(k - 1) : At(s.turnOrder, seat(j)) = s.kabulCaller
    IN seat(k)

\* C16: in KabulGame, skipAction(p) by the active player of a pending ability
\* clears pendingAction, moves the turn to the next player who is not the
\* Kabul caller and leaves every hand, the deck, the discard pile and
\* drawnCard unchanged; skipAction by any other player changes nothing.
C16_SkipActionFrame ==
    engine = "KabulGame" =>
        \A p \in Ids :
            LET r == skipAction(game, p)
            IN /\ r.ok
               /\ IF game.pendingAction # NoPendingAction /\ game.pendingAction.playerId = p
                  THEN /\ r.state.pendingAction = NoPendingAction
                       /\ r.state.currentTurnIndex = NextNonCaller(game)
                       /\ SameHands(game, r.state)
                       /\ r.state.deck = game.deck
                       /\ r.state.discardPile = game.discardPile
                       /\ r.state.topDiscard = game.topDiscard
                       /\ r.state.drawnCard = game.drawnCard
                  ELSE r.state = game

\* the active player of an ability has skipped it
C16_AbilitySkipped ==
    /\ engine = "KabulGame"
    /\ last.op = "skipAction"
    /\ game.pendingAction = NoPendingAction
    /\ getCurrentPlayerId(game) # last.playerId

\* C17: in KabulGame, a pending ability whose expiresAt has passed is
\* resolved exactly like a skip: when it goes away, pendingAction is cleared
\* and the turn has advanced as skipAction by its player advances it.
C17_ExpiredResolvesAsSkip ==
    [][(engine = "KabulGame" /\ game.pendingAction.expired
        /\ game'.pendingAction # game.pendingAction)
         => game' = skipAction(game, game.pendingAction.playerId).state]_vars

\* C18: in KabulGame, the _clearPeekAndNextTurn a peek scheduled acts on the
\* PEEK_RESULT of that peek only: a timer older than the latest peek (it is
\* not the last one scheduled) changes nothing when it fires.
C18_TimerActsOnOwnPeek ==
    [][(Called /\ last'.op = "_clearPeekAndNextTurn" /\ Len(timers) > 1)
         => game' = game]_vars

\* the cards of a hand, without their position fields
Faces(hand) == [k \in 1..Len(hand) |-> Display(hand[k])]

\* the position field of every card of the hand is its index
Numbered(hand) == \A k \in 1..Len(hand) : hand[k].position = k - 1

\* state.pendingAction as getServerState writes it
Pending(s) == [s.pendingAction EXCEPT !.shared = FALSE]

\* C19: KabulGame.slap(p, i) with hand[i].rank equal to topDiscard.rank
\* removes exactly that card from p's hand, keeps the other cards in order
\* with positions 0..len-1, pushes the removed card as the new discardPile
\* top and topDiscard, and changes no other hand, the deck, the current turn,
\* drawnCard or pendingAction.
C19_SlapMatchFrame ==
    (engine = "KabulGame" /\ game.phase = "PLAYING") =>
        \A p \in PlayerIds(game) :
            \A i \in 0..(Len(Hand(game, p)) - 1) :
                At(Hand(game, p), i).rank = game.topDiscard.rank =>
                    LET r == slap(game, p, i)
                        old == Faces(Hand(game, p))
                    IN /\ r.ok
                       /\ r.success
                       /\ Faces(Hand(r.state, p))
                             = SubSeq(old, 1, i) \o SubSeq(old, i + 2, Len(old))
                       /\ Numbered(Hand(r.state, p))
                       /\ r.state.discardPile
                             = Append(game.discardPile, At(Hand(game, p), i))
                       /\ r.state.topDiscard = At(Hand(game, p), i)
                       /\ \A q \in DOMAIN game.players \ {p} :
                             Hand(r.state, q) = Hand(game, q)
                       /\ r.state.deck = game.deck
                       /\ r.state.currentTurnIndex = game.currentTurnIndex
                       /\ r.state.drawnCard = game.drawnCard
                       /\ Pending(r.state) = Pending(game)

\* C20: KabulGame.slap(p, i) with a rank that does not match moves the top
\* card of the deck to the end of p's hand and changes nothing else; with an
\* empty deck it changes nothing at all. In both cases it returns
\* { success: false } and does not throw.
C20_SlapPenalty ==
    (engine = "KabulGame" /\ game.phase = "PLAYING") =>
        \A p \in PlayerIds(game) :
            \A i \in 0..(Len(Hand(game, p)) - 1) :
                At(Hand(game, p), i).rank # game.topDiscard.rank =>
                    LET r == slap(game, p, i)
                        n == Len(Hand(game, p))
                    IN /\ r.ok
                       /\ ~r.success
                       /\ r.err = ""
                       /\ IF Len(game.deck) > 0
                          THEN /\ r.state.players =
                                    [game.players EXCEPT ![p].hand =
                                        Append(@, WithPosition(Head(game.deck), n))]
                               /\ r.state.deck = Tail(game.deck)
                               /\ r.state = [game EXCEPT !.players = r.state.players,
                                                         !.deck = r.state.deck]
                          ELSE r.state = game

\* a slap with a card of another rank has drawn its penalty
C20_PenaltyDrawn ==
    /\ engine = "KabulGame"
    /\ last.op = "slap"
    /\ last.ok
    /\ ~last.success
    /\ Len(Hand(game, last.playerId)) = 5

(***************************************************************************)
(* Phases, scoring and failed calls                                        *)
(***************************************************************************)
\* the hands of the room
RoomHands(d) == [q \in DOMAIN d.players |-> d.players[q].hand]

\* C21: a FirebaseService SLAP_MATCH submitted while phase is WAITING,
\* MEMORIZE or ENDED is rejected and changes no hand, the deck or the discard
\* pile.
C21_SlapOnlyWhilePlaying ==
    \A p \in RoomIds, i \in Indices :
        (Idle /\ db.gameState.phase \in {"WAITING", "MEMORIZE", "ENDED"})
        => LET r == Returned(db, "SLAP_MATCH", p, <<i>>)
           IN /\ ~r.proc.ok
              /\ RoomHands(r.db) = RoomHands(db)
              /\ r.db.deck = db.deck
              /\ r.db.discardPile = db.discardPile

\* C22: in KabulGame, once a player's hasCalledKabul is true that player's
\* hand never changes again before the game ends: no swap by another player
\* targeting them, no slap by them and no other operation alters its cards or
\* its length.
C22_KabulHandFrozen ==
    [][\A p \in DOMAIN game.players :
          (engine = "KabulGame" /\ game.players[p].hasCalledKabul /\ game.phase # "ENDED")
            => Hand(game', p) = Hand(game, p)]_vars

\* the place of a phase in WAITING -> MEMORIZE -> PLAYING -> ENDED
PhaseOrder(phase) ==
    CASE phase = "WAITING" -> 0
      [] phase = "MEMORIZE" -> 1
      [] phase = "PLAYING" -> 2
      [] phase = "ENDED" -> 3

\* C23: in KabulGame the phase only moves forward along WAITING -> MEMORIZE
\* -> PLAYING -> ENDED under every sequence of public operations, and once
\* phase = ENDED the phase, winner, every finalScore and every hand stay
\* fixed.
C23_PhaseMovesForward ==
    [][engine = "KabulGame"
         => /\ PhaseOrder(game'.phase) >= PhaseOrder(game.phase)
            /\ game.phase = "ENDED"
                  => /\ game'.phase = "ENDED"
                     /\ game'.winner = game.winner
                     /\ game'.players = game.players]_vars

\* the values of the cards of a hand, added up from the last card
RECURSIVE HandTotal(_)
HandTotal(hand) ==
    IF hand = <<>> THEN 0
    ELSE HandTotal(SubSeq(hand, 1, Len(hand) - 1)) + Value(hand[Len(hand)])

\* the game as _endGame leaves it: the game itself once it has ended
Ended(s) == IF s.phase = "ENDED" THEN s ELSE _endGame(s)

\* C24: when _endGame runs, every player's finalScore is the sum of the
\* values of the cards in that hand, whatever its length, and winner is a
\* player whose finalScore is minimal over all players, the Kabul caller
\* included; among the players tied on the minimum it is the one earliest in
\* turnOrder.
C24_EndGameScores ==
    (engine = "KabulGame" /\ game.phase \in {"PLAYING", "ENDED"})
    => LET e == Ended(game)
           w == e.winner
       IN /\ e.phase = "ENDED"
          /\ \A p \in PlayerIds(game) :
                e.players[p].finalScore = <<HandTotal(Hand(game, p))>>
          /\ w \in PlayerIds(game)
          /\ \A k \in 1..Len(game.turnOrder) :
                LET q == game.turnOrder[k]
                IN /\ HandTotal(Hand(game, w)) <= HandTotal(Hand(game, q))
                   /\ HandTotal(Hand(game, q)) = HandTotal(Hand(game, w))
                         => \E j \in 1..k : game.turnOrder[j] = w

\* a call has ended the game with another player tied with the winner
C24_GameEnded ==
    /\ engine = "KabulGame"
    /\ game.phase = "ENDED"
    /\ last.op # "none"
    /\ game.winner \in PlayerIds(game)
    /\ \E q \in PlayerIds(game) \ {game.winner} :
          game.players[q].finalScore = game.players[game.winner].finalScore

\* C25: in KabulGame, every operation that fails (throws) leaves the game
\* state exactly as it was before the call, for every rejection reason:
\* wrong turn, wrong phase, no drawn card, index out of range, self-target,
\* unknown target, no matching pending action, expired action.
C25_FailedCallChangesNothing ==
    [][(engine = "KabulGame" /\ Called /\ ~last'.ok) => game' = game]_vars

\* the cards of the hands of the players keys[k..], one hand after the other
RECURSIVE HandCards(_, _, _)
HandCards(d, keys, k) ==
    IF k > Len(keys) THEN <<>>
    ELSE d.players[keys[k]].hand \o HandCards(d, keys, k + 1)

\* the drawn cards held in the private nodes of the players keys[k..]
RECURSIVE DrawnCards(_, _, _)
DrawnCards(d, keys, k) ==
    IF k > Len(keys) THEN <<>>
    ELSE (IF d.private[keys[k]].drawnCard = NoCard THEN <<>>
          ELSE <<d.private[keys[k]].drawnCard>>) \o DrawnCards(d, keys, k + 1)

\* every card of the room: deck, discard pile, hands and drawn cards
RoomCards(d) ==
    d.deck \o d.discardPile \o HandCards(d, Keys(d.players), 1)
           \o DrawnCards(d, Keys(d.players), 1)

\* how often card c occurs in cards
Copies(cards, c) == Cardinality({i \in DOMAIN cards : Display(cards[i]) = Display(c)})

\* cards holds the cards of _generateDeck, each as often as the deck does
FullDeck(cards) ==
    /\ Len(cards) = Len(_generateDeck)
    /\ \A i \in DOMAIN _generateDeck :
          Copies(cards, _generateDeck[i]) = Copies(_generateDeck, _generateDeck[i])

\* one SLAP_MATCH and at most one SWAP_CARD or DISCARD_DRAWN have been
\* submitted, and both have returned
SlapRaceOver ==
    /\ Idle
    /\ opCount <= 2
    /\ Cardinality({i \in DOMAIN procs : procs[i].op = "SLAP_MATCH"}) = 1

\* C26: in FirebaseService, cards are never lost or duplicated when a
\* SLAP_MATCH by one player runs concurrently with the turn-holder's SWAP_CARD
\* or DISCARD_DRAWN: for every interleaving, once both actions have finished,
\* deck, discard pile, hands and private drawn cards hold the cards they held
\* before (the 54 cards of the deck).
C26_SlapRaceKeepsCards == SlapRaceOver => FullDeck(RoomCards(db))

\* C27: the in-place shuffle (KabulGame._shuffleDeck, FirebaseService._shuffle,
\* GameLogic.shuffleDeck) returns, for every sequence of random index choices
\* j in 0..i, a permutation of its input: same length and the same multiset
\* of cards, with no card lost or duplicated.
C27_ShuffleIsPermutation ==
    (engine = "shuffle" /\ last.op # "none")
    => /\ Len(game.deck) = Len(last.args)
       /\ \A i \in DOMAIN last.args :
             Copies(game.deck, last.args[i]) = Copies(last.args, last.args[i])

\* a shuffle has reordered a deck that holds a card twice
C27_Reordered ==
    /\ engine = "shuffle"
    /\ last.op # "none"
    /\ game.deck # last.args
    /\ \E i, j \in DOMAIN last.args : i # j /\ last.args[i] = last.args[j]

\* the player of a 2-player game who is not a
Opponent(s, a) == CHOOSE b \in PlayerIds(s) : b # a

\* a 2-player game in PLAYING in which the turn-holder is about to draw and
\* holds a 9 as first card, the other player holding a third card
NineAtHand(s) ==
    /\ s.phase = "PLAYING"
    /\ Len(s.turnOrder) = 2
    /\ s.drawnCard = NoDrawnCard
    /\ s.pendingAction = NoPendingAction
    /\ Len(s.deck) > 0
    /\ Len(Hand(s, getCurrentPlayerId(s))) > 0
    /\ At(Hand(s, getCurrentPlayerId(s)), 0).rank = "9"
    /\ Len(Hand(s, Opponent(s, getCurrentPlayerId(s)))) > 2

\* from s: drawCard(A, 'deck'), swapCard(A, 0), peekEnemyCard(A, B, 2) and the
\* peek timer, with the outcome of the scenario
PeekEnemyScenario(s) ==
    LET A == getCurrentPlayerId(s)
        B == Opponent(s, A)
        r1 == drawCard(s, A, "deck")
        r2 == swapCard(r1.state, A, 0)
        r3 == peekEnemyCard(r2.state, A, B, 2)
        s4 == _clearPeekAndNextTurn(r3.state, A)
    IN /\ r1.ok /\ r2.ok /\ r3.ok
       /\ r2.state.pendingAction.type = "CHOOSING_ENEMY_CARD_TO_PEEK"
       /\ r2.state.pendingAction.playerId = A
       /\ getCurrentPlayerId(r2.state) = A
       /\ Display(r3.card) = Display(At(Hand(s, B), 2))
       /\ SameHands(r2.state, r3.state)
       /\ r3.state.deck = r2.state.deck
       /\ r3.state.discardPile = r2.state.discardPile
       /\ s4.pendingAction = NoPendingAction
       /\ getCurrentPlayerId(s4) = B
       /\ s4 = [r3.state EXCEPT !.pendingAction = NoPendingAction,
                                !.currentTurnIndex = s4.currentTurnIndex]

\* C28: in a 2-player KabulGame in PLAYING with A to move: after
\* drawCard(A,'deck') and swapCard(A,0) displacing a card of rank 9, the
\* pending action is CHOOSING_ENEMY_CARD_TO_PEEK for A and the turn is still
\* A's; peekEnemyCard(A,B,2) then returns B's card at index 2 and changes no
\* hand, the deck or the discard pile; and when the peek timer fires,
\* pendingAction is cleared and the turn is B's, with no other field changed.
C28_PeekEnemyScenario ==
    (engine = "KabulGame" /\ NineAtHand(game)) => PeekEnemyScenario(game)

\* C28, amended: the same, in a game in which Kabul has not been called
C28_PeekEnemyScenarioBeforeKabul ==
    (engine = "KabulGame" /\ NineAtHand(game) /\ game.kabulCaller = NoPlayer)
    => PeekEnemyScenario(game)

\* the scenario starts: A is to draw and will displace a 9, no Kabul called
C28_NineToDisplace ==
    /\ engine = "KabulGame"
    /\ NineAtHand(game)
    /\ game.kabulCaller = NoPlayer
    /\ peekEnemyCard(swapCard(drawCard(game, getCurrentPlayerId(game), "deck").state,
                              getCurrentPlayerId(game), 0).state,
                     getCurrentPlayerId(game),
                     Opponent(game, getCurrentPlayerId(game)), 2).ok

\* the pending action a displaced card of this rank opens
OpenedBy(rank) ==
    CASE rank \in {"7", "8"} -> "CHOOSING_OWN_CARD_TO_PEEK"
      [] rank \in {"9", "10"} -> "CHOOSING_ENEMY_CARD_TO_PEEK"
      [] rank = "J" -> "SWAPPING_CARDS"
      [] rank \in {"Q", "K"} -> "SEE_AND_SWAPPING_CARDS"
      [] rank \in {"A", "2", "3", "4", "5", "6", "Joker"} -> "null"

\* r is the outcome of p's swapCard or discardDrawn that displaced card
Displaces(r, p, card) ==
    /\ Faces(r.state.discardPile) = Faces(Append(game.discardPile, card))
    /\ Display(r.state.topDiscard) = Display(card)
    /\ r.state.drawnCard = NoDrawnCard
    /\ IF OpenedBy(card.rank) # "null"
       THEN /\ r.state.pendingAction.type = OpenedBy(card.rank)
            /\ r.state.pendingAction.playerId = p
            /\ r.state.currentTurnIndex = game.currentTurnIndex
       ELSE /\ r.state.pendingAction = NoPendingAction
            /\ r.state.currentTurnIndex = NextNonCaller(game)

\* C29: in KabulGame, swapCard and discardDrawn put the displaced card (the
\* replaced hand card on swap, the drawn card on discard) on top of the
\* discard pile and clear drawnCard; then, by the displaced card's rank, 7/8
\* opens CHOOSING_OWN_CARD_TO_PEEK, 9/10 CHOOSING_ENEMY_CARD_TO_PEEK, J
\* SWAPPING_CARDS, Q/K SEE_AND_SWAPPING_CARDS, each for the acting player with
\* the turn unchanged, and every other rank (A, 2-6, Joker) opens nothing and
\* advances the turn.
C29_DisplacedCardResolves ==
    engine = "KabulGame" =>
        \A p \in PlayerIds(game) :
            /\ discardDrawn(game, p).ok
                  => Displaces(discardDrawn(game, p), p, game.drawnCard.card)
            /\ \A i \in Indices :
                  swapCard(game, p, i).ok
                      => Displaces(swapCard(game, p, i), p, At(Hand(game, p), i))

\* hand2 is hand with the card at index i replaced by card
Replaced(hand, hand2, i, card) ==
    /\ Len(hand2) = Len(hand)
    /\ Display(At(hand2, i)) = Display(card)
    /\ At(hand2, i).position = i
    /\ \A k \in 1..Len(hand) : k # i + 1 => hand2[k] = hand[k]

\* C30: a successful blindSwap(p, i, t, j) exchanges exactly the card at p's
\* index i with the card at t's index j (t # p), leaves every other hand slot,
\* the deck and the discard pile unchanged, clears pendingAction and advances
\* the turn in the same operation, and its result contains no rank, suit or
\* value of either card.
C30_BlindSwapFrame ==
    engine = "KabulGame" =>
        \A p \in Ids, t \in Ids, i \in Indices, j \in Indices :
            LET r == blindSwap(game, p, i, t, j)
            IN (r.ok /\ r.success)
               => /\ t # p
                  /\ Replaced(Hand(game, p), Hand(r.state, p), i, At(Hand(game, t), j))
                  /\ Replaced(Hand(game, t), Hand(r.state, t), j, At(Hand(game, p), i))
                  /\ \A q \in DOMAIN game.players \ {p, t} : Hand(r.state, q) = Hand(game, q)
                  /\ r.state.deck = game.deck
                  /\ r.state.discardPile = game.discardPile
                  /\ r.state.topDiscard = game.topDiscard
                  /\ r.state.pendingAction = NoPendingAction
                  /\ r.state.currentTurnIndex = NextNonCaller(game)
                  /\ r.card = NoCard

\* a blind swap has been made
C30_BlindSwapped ==
    /\ engine = "KabulGame"
    /\ last.op = "blindSwap"
    /\ last.ok
    /\ last.success

(***************************************************************************)
(* Dealing, final turns and the piles                                      *)
(***************************************************************************)
\* every card of the game: deck, discard pile, hands and the drawn card
GameCards(s) ==
    s.deck \o s.discardPile \o HandCards(s, s.turnOrder, 1)
           \o (IF s.drawnCard # NoDrawnCard THEN <<s.drawnCard.card>> ELSE <<>>)

\* cards holds the cards of _initDeck, each as often as _initDeck does
Generated(cards) ==
    /\ Len(cards) = Len(_initDeck)
    /\ \A i \in DOMAIN _initDeck :
          Copies(cards, _initDeck[i]) = Copies(_initDeck, _initDeck[i])

\* the waiting game as it is, and with one more player seated
Seatings == {game, addPlayer(game, MaxPlayers + 1).state}

\* C31: in KabulGame, startGame called in phase WAITING with n players
\* (2 <= n <= 4) returns and leaves 4 cards in every hand, a discard pile of
\* one card that is topDiscard, 54 - 4n - 1 cards in the deck, every generated
\* card exactly once in these containers, phase MEMORIZE and the first player
\* of turnOrder as turn-holder, whatever the shuffle.
C31_StartGameDeals ==
    (engine = "KabulGame" /\ game.phase = "WAITING") =>
        \A s \in Seatings, rnd \in DOMAIN ShuffledDeck :
            LET n == Len(s.turnOrder)
                r == startGame(s, rnd)
                t == r.state
            IN n \in 2..4 =>
                /\ r.ok
                /\ \A p \in PlayerIds(t) : Len(Hand(t, p)) = 4
                /\ Len(t.discardPile) = 1 /\ t.topDiscard = t.discardPile[1]
                /\ Len(t.deck) = 54 - 4 * n - 1
                /\ Generated(GameCards(t))
                /\ t.phase = "MEMORIZE"
                /\ getCurrentPlayerId(t) = t.turnOrder[1]

\* a waiting game of MaxPlayers players has just been started
C31_Dealt ==
    /\ engine = "KabulGame" /\ starts = 1
    /\ last.op = "startGame" /\ last.ok
    /\ Len(game.turnOrder) = MaxPlayers
    /\ game.phase = "MEMORIZE"
    /\ Len(game.deck) = 54 - 4 * MaxPlayers - 1

\* C32: in GameLogic with n players, the k-th nextTurn after a callKabul by
\* the player at index c (k = 1..n) moves currentPlayerIndex to (c + k) % n;
\* it returns false and leaves gameEnded true for k < n, and returns true and
\* sets gameEnded to "complete" for k = n, the call that brings the index back
\* to c: every other player is turn-holder once, the caller never.
C32_FinalRound ==
    (/\ engine = "GameLogic"
     /\ game.gameEnded # "false"
     /\ last.op = "nextTurn"
     /\ opCount \in 1..Len(game.players)) =>
        LET n == Len(game.players)
            c == game._kabulCallerIndex
        IN /\ game.currentPlayerIndex = (c + opCount) % n
           /\ last.success = (opCount = n)
           /\ game.gameEnded = (IF opCount = n THEN "complete" ELSE "true")
           /\ game.players[c + 1].hasCalledKabul

\* the final round of a game of MaxPlayers + 1 players has come back to the
\* caller, who was not the first player
C32_RoundComplete ==
    /\ engine = "GameLogic"
    /\ last.op = "nextTurn" /\ last.success
    /\ Len(game.players) = MaxPlayers + 1
    /\ opCount = Len(game.players)
    /\ game.gameEnded = "complete"
    /\ game.currentPlayerIndex = game._kabulCallerIndex
    /\ game._kabulCallerIndex > 0

\* C33: in FirebaseService, a DRAW_DISCARD submitted alone by the turn-holder
\* in sub-phase DRAWING, the discard pile holding a card, returns
\* successfully whatever the deck holds: the top of the pile becomes the
\* player's private drawnCard, leaves the pile, and turnPhase is DISCARDING.
C33_DrawDiscardNeedsOnlyPile ==
    (/\ Idle
     /\ db.gameState.phase = "PLAYING"
     /\ db.gameState.turnPhase = "DRAWING"
     /\ db.gameState.currentTurn \in DOMAIN db.private
     /\ Len(db.discardPile) > 0) =>
        LET p == db.gameState.currentTurn
            r == Returned(db, "DRAW_DISCARD", p, <<"discard">>)
        IN /\ r.proc.ok
           /\ r.db.private[p].drawnCard = db.discardPile[Len(db.discardPile)]
           /\ Len(r.db.discardPile) = Len(db.discardPile) - 1
           /\ r.db.gameState.turnPhase = "DISCARDING"

\* the request that completes the peek open in room d: the own first card,
\* or the first card of the next player
PeekRequest(d) ==
    LET p == d.gameState.abilityState.activePlayer
        t == CHOOSE q \in DOMAIN d.players : q # p
    IN IF d.gameState.abilityState.type = "PEEK_SELF"
       THEN [op |-> "SELECT_OWN_CARD", args |-> <<0>>]
       ELSE [op |-> "SELECT_ENEMY_CARD", args |-> <<t, 0>>]

\* the turn has passed from room d to room e once: the next player is to
\* draw, and a Kabul call has one final turn less to go
AdvancedOnce(d, e) ==
    /\ e.gameState.currentTurn # d.gameState.currentTurn
    /\ e.gameState.turnPhase = "DRAWING"
    /\ e.gameState.finalTurnsRemaining =
          d.gameState.finalTurnsRemaining
              - (IF d.gameState.kabulCaller # NoPlayer THEN 1 ELSE 0)

\* C34: in FirebaseService, a completed peek (SELECT_OWN_CARD for PEEK_SELF,
\* SELECT_ENEMY_CARD for PEEK_ENEMY) advances the turn once, whether its
\* timer fires alone or SKIP_ABILITY is submitted during the reveal window;
\* in the second case the timer that fires after the next player has drawn
\* leaves currentTurn, turnPhase and finalTurnsRemaining as they are.
C34_PeekAdvancesOnce ==
    (/\ Idle
     /\ fbTimers = <<>>
     /\ db.gameState.phase = "PLAYING"
     /\ db.gameState.abilityState.type \in {"PEEK_SELF", "PEEK_ENEMY"}
     /\ db.gameState.turnPhase \in {"SELECTING_OWN_CARD", "SELECTING_TARGET"}
     /\ db.gameState.finalTurnsRemaining # 1
     /\ Len(db.deck) > 0
     /\ \A q \in DOMAIN db.players : Len(db.players[q].hand) > 0) =>
        LET p == db.gameState.abilityState.activePlayer
            peek == Returned(db, PeekRequest(db).op, p, PeekRequest(db).args)
            alone == Run(peek, TRUE).db
            skipped == Served(peek.db, "SKIP_ABILITY", p, <<>>)
            drawn == Served(skipped, "DRAW_DECK", skipped.gameState.currentTurn, <<"deck">>)
            late == Run([peek EXCEPT !.db = drawn], TRUE).db
        IN /\ peek.proc.ok
           /\ AdvancedOnce(db, alone)
           /\ AdvancedOnce(db, skipped)
           /\ drawn.gameState.turnPhase = "DISCARDING"
           /\ late.gameState = drawn.gameState

\* C35: in FirebaseService, whatever the interleaving of the DRAW_DECK and
\* DRAW_DISCARD requests submitted in the first turn of a started room, at
\* most one card leaves the deck and at most one the discard pile, and once
\* the requests have returned with one card gone from the deck and none from
\* the discard pile, that card is the turn-holder's private drawnCard.
C35_OneDrawPerTurn ==
    LET p == FB_StartedRoom.gameState.currentTurn
    IN /\ Len(db.deck) >= Len(FB_StartedRoom.deck) - 1
       /\ Len(db.discardPile) >= Len(FB_StartedRoom.discardPile) - 1
       /\ (/\ Idle
           /\ Len(db.deck) = Len(FB_StartedRoom.deck) - 1
           /\ Len(db.discardPile) = Len(FB_StartedRoom.discardPile))
              => db.private[p].drawnCard = Head(FB_StartedRoom.deck)

\* C36: in KabulGame, in every state of a game started once, the deck, the
\* discard pile, the hands and the drawn card (one card while drawnCard is
\* non-null) hold 54 cards together, and hold every generated card exactly
\* as often as _initDeck generated it: no card is in two containers or twice
\* in one, the two Jokers counting as two cards.
C36_EveryCardOnce ==
    (engine = "KabulGame" /\ StartedOnce) =>
        /\ Len(GameCards(game)) = 54
        /\ Generated(GameCards(game))

\* a player holds a drawn card after a slap has taken a card out of a hand and
\* put it on the discard pile
C36_DrawnAfterSlap ==
    /\ engine = "KabulGame" /\ StartedOnce
    /\ game.drawnCard # NoDrawnCard
    /\ \E p \in PlayerIds(game) : Len(Hand(game, p)) = 3
    /\ Len(game.discardPile) >= 2

\* C37: in every reachable KabulGame state, topDiscard is the last element of
\* discardPile, and is null exactly when discardPile is empty.
C37_TopDiscardIsTop ==
    engine = "KabulGame" =>
        game.topDiscard = (IF Len(game.discardPile) = 0 THEN NoCard
                           ELSE game.discardPile[Len(game.discardPile)])

\* the only card of the discard pile has just been drawn: the pile is empty
\* and topDiscard is null
C37_PileDrawnEmpty ==
    /\ engine = "KabulGame"
    /\ last.op = "drawCard" /\ last.ok /\ last.args = <<"discard">>
    /\ game.drawnCard.card = last.card
    /\ Len(game.discardPile) = 0
    /\ game.topDiscard = NoCard

\* C38: in FirebaseService, whenever no request is in flight, the summary
\* fields of gameState match the piles: topDiscard is the last element of
\* discardPile (null when the pile is empty) and deckCount is the length of
\* deck.
C38_SummaryMatchesPiles ==
    Idle =>
        /\ db.gameState.topDiscard =
              (IF Len(db.discardPile) = 0 THEN NoCard
               ELSE db.discardPile[Len(db.discardPile)])
        /\ db.gameState.deckCount = Len(db.deck)

\* the call returned and reported success
Succeeds(r) == r.ok /\ r.success

\* the turn-holder p of s has an operation that succeeds among drawCard,
\* swapCard, discardDrawn, callKabul, the operation of the pending ability,
\* and a skipAction that ends a pending ability
CanAct(s, p) ==
    LET slots == 0..5
    IN \/ Succeeds(drawCard(s, p, "deck")) \/ Succeeds(drawCard(s, p, "discard"))
       \/ \E i \in slots : Succeeds(swapCard(s, p, i))
       \/ Succeeds(discardDrawn(s, p))
       \/ Succeeds(callKabul(s, p))
       \/ \E i \in slots : Succeeds(peekOwnCard(s, p, i))
       \/ \E i \in slots, t \in PlayerIds(s) : Succeeds(peekEnemyCard(s, p, t, i))
       \/ \E i \in slots, j \in slots, t \in PlayerIds(s) :
             Succeeds(blindSwap(s, p, i, t, j)) \/ Succeeds(seeAndSwap(s, p, i, t, j))
       \/ skipAction(s, p).state # s

\* C39: in every reachable KabulGame state with phase PLAYING, a peek timer
\* is outstanding whose callback will advance the turn, or the turn-holder
\* has an operation that succeeds among drawCard, swapCard, discardDrawn,
\* callKabul, the pending ability's own operation and skipAction.
C39_NeverStuck ==
    (engine = "KabulGame" /\ game.phase = "PLAYING") =>
        \/ \E k \in DOMAIN timers : _clearPeekAndNextTurn(game, timers[k]) # game
        \/ CanAct(game, getCurrentPlayerId(game))

\* the players who have hasCalledKabul set
Callers(s) == {p \in PlayerIds(s) : s.players[p].hasCalledKabul}

\* C40: in KabulGame, within one game (no startGame in the step), kabulCaller
\* once non-null never changes, finalTurnsRemaining never grows once Kabul has
\* been called, and at most one player has hasCalledKabul set.
C40_KabulCalledOnce ==
    [][(engine = "KabulGame" /\ starts' = starts) =>
          /\ game.kabulCaller # NoPlayer =>
                /\ game'.kabulCaller = game.kabulCaller
                /\ game'.finalTurnsRemaining <= game.finalTurnsRemaining
          /\ Cardinality(Callers(game')) <= 1]_vars

====
